---- MODULE Spec2Model ----
(***************************************************************************)
(* Model of the Opus decoder core of lu-zero/opus: the range decoder of    *)
(* src/entropy.rs with its two bit readers, and the per-packet control     *)
(* flow of Dec::send_packet in src/decoder.rs.                             *)
(*                                                                         *)
(* Numbers.  The range decoder works on values up to 2^31 and the bit      *)
(* readers on 64-bit caches, which the model checker's 32-bit signed       *)
(* integers cannot hold.  `range' and `value' are therefore kept as two    *)
(* 16-bit limbs <<hi, lo>> (hi * 65536 + lo), and a reader's cache as the  *)
(* sequence of its 64 bits, next bit to be read first.  All other          *)
(* quantities (total, tell, indexes, symbols) are plain integers.          *)
(*                                                                         *)
(* Bit readers.  UnpaddedBitReadBE and ReverseBitReadLE are produced by    *)
(* the big_endian_reader! and little_endian_reader! macros of the          *)
(* av_bitstream crate; src/entropy.rs supplies their fill and can_refill.  *)
(* The macro part (get_bits_32, refill32, refill64, peek_val, skip_rem,    *)
(* build_cache) is modelled as that crate defines it: get_bits_32(n)       *)
(* refills 32 bits when left <= n, and skip_rem subtracts saturating.      *)
(***************************************************************************)
EXTENDS Integers, Sequences, FiniteSets, TLC

VARIABLES
    rd,        \* the RangeDecoder of the frame being decoded
    last,      \* the last range-decoder call: operation, argument, result
    ops,       \* the range-decoder calls made on rd, with their results
    panicked,  \* a Rust panic (overflow check, assert, unwrap) has unwound
    pc,        \* position of Dec::send_packet
    pkt,       \* the parsed packet being processed
    fi,        \* index of the frame being decoded (0-based)
    silk,      \* Silk fields set by setup, and what it was set up for
    celt,      \* Celt fields set by setup, and what it was set up for
    result,    \* what send_packet returned
    log,       \* the state mutations of the current send_packet, in order
    npkts,     \* packets handed to send_packet so far
    dec,       \* Dec: extradata, whether silk and celt are Some, the last configure
    smp,       \* a Silk with its frames' samples, and the position of Silk::decode
    fx         \* a function applied on its own: its input, then its result

vars == <<rd, last, ops, panicked, pc, pkt, fi, silk, celt, result, log, npkts, dec, smp, fx>>

(***************************************************************************)
(* Bounds of the exploration.                                              *)
(***************************************************************************)
MaxLen == 2          \* longest frame, in bytes, given to RangeDecoder::new
MaxOps == 3          \* range-decoder calls made on one frame
MaxPackets == 2      \* packets sent to one Dec
MaxParse == 1        \* symbols one SilkFrame::parse draws

\* The byte values frames are made of.
ByteVals == {0, 255}

Min(a, b) == IF a <= b THEN a ELSE b
Max(a, b) == IF a >= b THEN a ELSE b

(***************************************************************************)
(* usize arithmetic on two 16-bit limbs.                                   *)
(***************************************************************************)
LIMB == 65536

U(n) == <<n \div LIMB, n % LIMB>>
Carry(h, l) == <<h + l \div LIMB, l % LIMB>>
Lt(a, b) == a[1] < b[1] \/ (a[1] = b[1] /\ a[2] < b[2])
Leq(a, b) == a = b \/ Lt(a, b)
\* a - b, for b <= a
Sub(a, b) ==
    IF a[2] >= b[2] THEN <<a[1] - b[1], a[2] - b[2]>>
    ELSE <<a[1] - b[1] - 1, a[2] + LIMB - b[2]>>
\* a * m, for a small m
MulSmall(a, m) == Carry(a[1] * m, a[2] * m)
\* a / d, for 0 < d <= 2^15
DivSmall(a, d) == <<a[1] \div d, ((a[1] % d) * LIMB + a[2]) \div d>>
Dbl(a) == Carry(2 * a[1], 2 * a[2])
\* a << 8, for a < 2^31
Shl8(a) == Carry(a[1] * 256, a[2] * 256)
\* a >> n
Shr(a, n) ==
    IF n >= 16 THEN <<0, a[1] \div 2^(n - 16)>>
    ELSE <<a[1] \div 2^n, (a[1] % 2^n) * 2^(16 - n) + a[2] \div 2^n>>
\* <<a / b, a % b>> for b > 0; the quotient is a plain integer
QRstep(s, b) ==
    IF Lt(s[2], b) THEN <<2 * s[1], s[2]>> ELSE <<2 * s[1] + 1, Sub(s[2], b)>>
RECURSIVE QR(_, _)
QR(a, b) == IF Lt(a, b) THEN <<0, a>> ELSE QRstep(QR(a, Dbl(b)), b)
Quot(a, b) == QR(a, b)[1]

\* ilog(x) is bitwidth - leading_zeros: the number of bits x needs
ilogN(n) == CHOOSE k \in 0..31 : (k = 31 \/ n < 2^k) /\ (k = 0 \/ 2^(k - 1) <= n)
ilog(a) == IF a[1] > 0 THEN 16 + ilogN(a[1]) ELSE ilogN(a[2])

(***************************************************************************)
(* Bits.                                                                   *)
(***************************************************************************)
Zeros(n) == [i \in 1..n |-> 0]
\* the 8 bits of a byte, most significant first / least significant first
BitsMSB(b) == [i \in 1..8 |-> (b \div 2^(8 - i)) % 2]
BitsLSB(b) == [i \in 1..8 |-> (b \div 2^(i - 1)) % 2]
\* the number written by the first n bits of s
RECURSIVE ValMSB(_, _)
ValMSB(s, n) == IF n = 0 THEN 0 ELSE 2 * ValMSB(s, n - 1) + s[n]
RECURSIVE ValLSB(_, _)
ValLSB(s, n) == IF n = 0 THEN 0 ELSE ValLSB(s, n - 1) + s[n] * 2^(n - 1)
\* the bits of bytes[from..to], first byte first, each most significant first
RECURSIVE BytesMSB(_, _, _)
BytesMSB(bytes, from, to) ==
    IF from > to THEN <<>> ELSE BitsMSB(bytes[from]) \o BytesMSB(bytes, from + 1, to)
\* the bits of bytes[from..to], last byte first, each least significant first
RECURSIVE BytesLSB(_, _, _)
BytesLSB(bytes, from, to) ==
    IF from > to THEN <<>> ELSE BitsLSB(bytes[to]) \o BytesLSB(bytes, from, to - 1)

(***************************************************************************)
(* The bit readers: a reader is [index, cache, left] over the frame's      *)
(* buffer; cache[1] is the next bit get_val hands out.                     *)
(***************************************************************************)
\* cache | refill << shift, the 32 refilled bits landing behind the `left'
\* bits still cached
build_cache(cache, refill, left) ==
    [i \in 1..64 |->
        IF i > left /\ i <= left + 32 THEN Max(cache[i], refill[i - left])
        ELSE cache[i]]
\* skip_rem: shift the n bits out of the cache
skip_rem(r, n) ==
    [r EXCEPT !.cache = [i \in 1..64 |-> IF i + n <= 64 THEN r.cache[i + n] ELSE 0],
              !.left = Max(r.left - n, 0)]

\* UnpaddedBitReadBE::fill: count bytes from index on, zero-filled past the end
UnpaddedBitReadBE_fill(buf, r, count) ==
    LET end == Min(Len(buf), r.index + count)
        start == r.index
    IN  BytesMSB(buf, start + 1, end) \o Zeros(8 * (count - (end - start)))
UnpaddedBitReadBE_can_refill(buf, r) == r.index < Len(buf)
UnpaddedBitReadBE_refill64(buf, r) ==
    IF ~UnpaddedBitReadBE_can_refill(buf, r) THEN r
    ELSE [index |-> r.index + 8, cache |-> UnpaddedBitReadBE_fill(buf, r, 8), left |-> 64]
UnpaddedBitReadBE_refill32(buf, r) ==
    IF ~UnpaddedBitReadBE_can_refill(buf, r) THEN r
    ELSE [index |-> r.index + 4,
          cache |-> build_cache(r.cache, UnpaddedBitReadBE_fill(buf, r, 4), r.left),
          left |-> r.left + 32]
UnpaddedBitReadBE_new(buf) ==
    UnpaddedBitReadBE_refill64(buf, [index |-> 0, cache |-> Zeros(64), left |-> 0])
\* get_bits_32(n): [v |-> the n bits read, r |-> the reader afterwards]
UnpaddedBitReadBE_get_bits_32(buf, r, n) ==
    IF n = 0 THEN [v |-> 0, r |-> r]
    ELSE LET r1 == IF r.left <= n THEN UnpaddedBitReadBE_refill32(buf, r) ELSE r
         IN  [v |-> ValMSB(r1.cache, n), r |-> skip_rem(r1, n)]

\* ReverseBitReadLE::fill: count bytes back from len - index, last byte lowest
ReverseBitReadLE_fill(buf, r, count) ==
    LET end == Len(buf) - r.index
        start == Max(end - count, 0)
        bits == BytesLSB(buf, start + 1, end)
    IN  bits \o Zeros(8 * count - Len(bits))
ReverseBitReadLE_can_refill(buf, r) == r.index <= Len(buf)
ReverseBitReadLE_refill64(buf, r) ==
    IF ~ReverseBitReadLE_can_refill(buf, r) THEN r
    ELSE [index |-> r.index + 8, cache |-> ReverseBitReadLE_fill(buf, r, 8), left |-> 64]
ReverseBitReadLE_refill32(buf, r) ==
    IF ~ReverseBitReadLE_can_refill(buf, r) THEN r
    ELSE [index |-> r.index + 4,
          cache |-> build_cache(r.cache, ReverseBitReadLE_fill(buf, r, 4), r.left),
          left |-> r.left + 32]
ReverseBitReadLE_new(buf) ==
    ReverseBitReadLE_refill64(buf, [index |-> 0, cache |-> Zeros(64), left |-> 0])
ReverseBitReadLE_get_bits_32(buf, r, n) ==
    IF n = 0 THEN [v |-> 0, r |-> r]
    ELSE LET r1 == IF r.left <= n THEN ReverseBitReadLE_refill32(buf, r) ELSE r
         IN  [v |-> ValLSB(r1.cache, n), r |-> skip_rem(r1, n)]

(***************************************************************************)
(* RangeDecoder.                                                           *)
(***************************************************************************)
SYM_BITS == 8
SYM_MAX == 2^SYM_BITS - 1
CODE_BITS == 32
CODE_TOP == <<2^(CODE_BITS - 1 - 16), 0>>
CODE_BOT == Shr(CODE_TOP, SYM_BITS)
UNI_BITS == 8

\* normalize's loop body without the `^ SYM_MAX'
normalize_step_plain(d) ==
    LET g == UnpaddedBitReadBE_get_bits_32(d.buf, d.bits, SYM_BITS)
        sh == Shl8(d.value)
    IN  [d EXCEPT !.bits = g.r,
                  !.value = <<sh[1] % 2^(CODE_BITS - 1 - 16), sh[2] + g.v>>,
                  !.range = Shl8(d.range),
                  !.total = d.total + SYM_BITS]
\* one turn of normalize's loop: shift the next byte, inverted, into value
normalize_step(d) ==
    LET g == UnpaddedBitReadBE_get_bits_32(d.buf, d.bits, SYM_BITS)
        v == SYM_MAX - g.v
        sh == Shl8(d.value)
    IN  [d EXCEPT !.bits = g.r,
                  !.value = <<sh[1] % 2^(CODE_BITS - 1 - 16), sh[2] + v>>,
                  !.range = Shl8(d.range),
                  !.total = d.total + SYM_BITS]
\* normalize with the loop test `range < CODE_BOT'
RECURSIVE normalize_lt(_)
normalize_lt(d) == IF Lt(d.range, CODE_BOT) THEN normalize_lt(normalize_step(d)) ELSE d
RECURSIVE normalize(_)
normalize(d) == IF Leq(d.range, CODE_BOT) THEN normalize(normalize_step(d)) ELSE d

\* the bytes (already inverted) that normalize shifts into value, in order
RECURSIVE normalize_bytes(_)
normalize_bytes(d) ==
    IF Leq(d.range, CODE_BOT)
    THEN <<normalize_step(d).value[2] % 256>> \o normalize_bytes(normalize_step(d))
    ELSE <<>>

\* the struct RangeDecoder::new builds, before it calls normalize
RangeDecoder_init(buf) ==
    LET g == UnpaddedBitReadBE_get_bits_32(buf, UnpaddedBitReadBE_new(buf), 7)
    IN  [buf |-> buf,
         bits |-> g.r,
         revs |-> ReverseBitReadLE_new(buf),
         range |-> U(128),
         value |-> U(127 - g.v),
         total |-> SYM_BITS + 1,
         size_in_bits |-> Len(buf) * 8]
RangeDecoder_new(buf) == normalize(RangeDecoder_init(buf))

tell(d) == d.total - ilog(d.range)

\* A call's outcome: the decoder before normalize ran (upd), the decoder
\* afterwards (rd), the value returned (ret), and whether the call panicked.
Outcome(upd, ret, panic) ==
    [upd |-> upd, rd |-> IF panic THEN upd ELSE normalize(upd), ret |-> ret, panic |-> panic]

\* update(scale, low, high, total), up to the call of normalize
update(d, scale, low, high, total) ==
    LET s == MulSmall(scale, total - high)
        underflow == total < high \/ Lt(d.value, s) \/ (low # 0 /\ high < low)
        range == IF low # 0 THEN MulSmall(scale, high - low) ELSE Sub(d.range, s)
    IN  IF underflow THEN [d |-> d, panic |-> TRUE]
        ELSE [d |-> [d EXCEPT !.value = Sub(d.value, s), !.range = range],
              panic |-> range = U(0)]

get_scale_symbol(d, total) ==
    LET scale == DivSmall(d.range, total)
    IN  [scale |-> scale, k |-> total - Min(Quot(d.value, scale) + 1, total)]

decode_logp(d, logp) ==
    LET scale == Shr(d.range, logp)
    IN  IF Lt(d.value, scale)
        THEN Outcome([d EXCEPT !.range = scale], TRUE, FALSE)
        ELSE Outcome([d EXCEPT !.range = Sub(d.range, scale),
                               !.value = Sub(d.value, scale)], FALSE, FALSE)

\* position with the test `*v >= sym'
position_geq(dist, sym) ==
    IF \E i \in 1..Len(dist) : dist[i] >= sym
    THEN (CHOOSE i \in 1..Len(dist) :
              dist[i] >= sym /\ \A j \in 1..(i - 1) : dist[j] < sym) - 1
    ELSE -1
\* dist.iter().position(|v| *v > sym), 0-based; -1 when there is none
position(dist, sym) ==
    IF \E i \in 1..Len(dist) : dist[i] > sym
    THEN (CHOOSE i \in 1..Len(dist) :
              dist[i] > sym /\ \A j \in 1..(i - 1) : dist[j] <= sym) - 1
    ELSE -1

decode_icdf(d, icdf) ==
    LET total == icdf.total
        dist == icdf.dist
        ss == get_scale_symbol(d, total)
        k == position(dist, ss.k)
    IN  IF k < 0 THEN Outcome(d, 0, TRUE)
        ELSE LET high == dist[k + 1]
                 low == IF k > 0 THEN dist[k] ELSE 0
                 u == update(d, ss.scale, low, high, total)
             IN  Outcome(u.d, k, u.panic)

available_underflows(d) == tell(d) > d.size_in_bits
available(d) == d.size_in_bits - tell(d)

rawbits(d, len) ==
    LET g == ReverseBitReadLE_get_bits_32(d.buf, d.revs, len)
    IN  [rd |-> [d EXCEPT !.revs = g.r], ret |-> g.v]

decode_uniform(d, len) ==
    LET bits == ilogN(len - 1)
        total == IF bits > UNI_BITS THEN ((len - 1) \div 2^(bits - UNI_BITS)) + 1 ELSE len
        ss == get_scale_symbol(d, total)
        u == update(d, ss.scale, ss.k, ss.k + 1, total)
        o == Outcome(u.d, ss.k, u.panic)
    IN  IF bits > UNI_BITS /\ ~o.panic
        THEN LET raw == rawbits(o.rd, bits - UNI_BITS)
             IN  [o EXCEPT !.rd = raw.rd,
                           !.ret = ss.k * 2^(bits - UNI_BITS) + raw.ret]
        ELSE o

\* the while loop of decode_laplace over (value, symbol, low)
RECURSIVE laplace_loop(_, _, _, _, _)
laplace_loop(value, symbol, low, center, decay) ==
    IF symbol > 1 /\ center >= low + 2 * symbol
    THEN laplace_loop(value + 1, (((2 * symbol - 2) * decay) \div 32768) + 1,
                      low + 2 * symbol, center, decay)
    ELSE [value |-> value, symbol |-> symbol, low |-> low]

decode_laplace(d, symbol, decay) ==
    LET scale == Shr(d.range, 15)
        center == 32768 - Min(Quot(d.value, scale) + 1, 32768)
        l0 == laplace_loop(1, 1 + (((32768 - 32 - symbol) * (16384 - decay)) \div 32768),
                           symbol, center, decay)
        dist == (center - l0.low) \div 2
        l1 == IF l0.symbol <= 1
              THEN [l0 EXCEPT !.value = l0.value + dist, !.low = l0.low + 2 * dist]
              ELSE l0
        l2 == IF center < l1.low + l1.symbol
              THEN [l1 EXCEPT !.value = -l1.value]
              ELSE [l1 EXCEPT !.low = l1.low + l1.symbol]
        r == IF center >= symbol THEN l2 ELSE [value |-> 0, symbol |-> symbol, low |-> 0]
        u == update(d, scale, r.low, Min(32768, r.low + r.symbol), 32768)
    IN  Outcome(u.d, r.value, u.panic)

\* to_end: total += size_in_bits - tell()
to_end(d) == [d EXCEPT !.total = d.total + (d.size_in_bits - tell(d))]

(***************************************************************************)
(* The contexts and arguments the decoders pass to the range decoder.      *)
(***************************************************************************)
STAGE2 == [total |-> 256, dist |-> <<85, 171, 256>>]
MID_ONLY == [total |-> 256, dist |-> <<192, 256>>]
TAPSET == [total |-> 4, dist |-> <<2, 3, 4>>]
ICDFS == <<STAGE2, MID_ONLY, TAPSET>>

\* decode_logp: VAD, LBRR and redundancy flags (1), silence flag (15)
LogpArgs == {1, 15}
\* decode_uniform: postfilter octave (6), redundancy size (256), PVQ index
UniformArgs == {1, 6, 256, 257}
\* decode_laplace: (model[k] << 7, model[k + 1] << 6) of COARSE_ENERGY_INTRA
LaplaceArgs == {<<24 * 128, 179 * 64>>, <<122 * 128, 37 * 64>>}
\* rawbits: fine energy and postfilter fields
RawbitsArgs == {1, 8}

\* every frame of at most n bytes
RECURSIVE FramesUpTo(_)
FramesUpTo(n) ==
    IF n = 0 THEN {<<>>}
    ELSE LET shorter == FramesUpTo(n - 1)
         IN  shorter \cup {Append(f, b) : f \in {g \in shorter : Len(g) = n - 1}, b \in ByteVals}

(***************************************************************************)
(* The range decoder under an arbitrary sequence of calls.                 *)
(***************************************************************************)

\* the record of a call: what was called with what, the decoder before the
\* call (pre), the decoder when normalize was entered (upd), the result
Call(op, arg, pre, upd, ret) == [op |-> op, arg |-> arg, pre |-> pre, upd |-> upd, ret |-> ret]
NoCall == Call("none", <<>>, <<>>, <<>>, 0)
\* no frame is being decoded
NoDecoder == [buf |-> <<>>]

NoPacket == [mode |-> "none", stereo |-> FALSE, frame_duration |-> 0,
             bandwidth |-> "none", frames |-> <<>>]
\* Silk::new and Celt::new, as far as setup writes their fields; setup_for is
\* the number of the packet setup was last called for
Silk_new == [frames |-> 0, subframes |-> 0, stereo |-> TRUE, bandwidth |-> "Full",
             f_size |-> 0, setup_for |-> 0]
Celt_new == [stereo_pkt |-> FALSE, setup_for |-> 0]

\* an Option: None, Some(x)
None == <<>>
Some(x) == <<x>>
\* Dec::new; silk and celt tell whether the fields are Some, and the variables
\* silk and celt hold their contents once they are
Dec_new ==
    [extradata |-> None, silk |-> FALSE, celt |-> FALSE, stereo_out |-> FALSE,
     called |-> FALSE, result |-> "none"]

\* no Silk is followed sample by sample
NoSilk == [pc |-> "none"]
\* no function is applied on its own
NoFx == [fn |-> "none"]
sampleVars == <<smp, fx>>

packetVars == <<pc, pkt, fi, silk, celt, result, log, npkts, dec, sampleVars>>

Init ==
    /\ \E buf \in FramesUpTo(MaxLen) :
          /\ rd = RangeDecoder_new(buf)
          /\ last = Call("new", <<>>, RangeDecoder_init(buf), RangeDecoder_init(buf), 0)
    /\ ops = <<>>
    /\ panicked = FALSE
    /\ pc = "calls" /\ pkt = NoPacket /\ fi = 0
    /\ silk = Silk_new /\ celt = Celt_new
    /\ result = "none" /\ log = <<>> /\ npkts = 0
    /\ dec = Dec_new
    /\ smp = NoSilk
    /\ fx = NoFx

CanCall == pc = "calls" /\ ~panicked /\ Len(ops) < MaxOps

\* the bookkeeping of a call that ran normalize
Decoded(op, arg, o) ==
    /\ rd' = o.rd
    /\ last' = Call(op, arg, rd, o.upd, o.ret)
    /\ ops' = Append(ops, <<op, o.ret>>)
    /\ panicked' = o.panic
    /\ UNCHANGED packetVars

DecodeLogp ==
    /\ CanCall
    /\ \E logp \in LogpArgs : Decoded("decode_logp", <<logp>>, decode_logp(rd, logp))

DecodeIcdf ==
    /\ CanCall
    /\ \E c \in 1..Len(ICDFS) : Decoded("decode_icdf", <<c>>, decode_icdf(rd, ICDFS[c]))

DecodeUniform ==
    /\ CanCall
    /\ \E n \in UniformArgs : Decoded("decode_uniform", <<n>>, decode_uniform(rd, n))

DecodeLaplace ==
    /\ CanCall
    /\ \E a \in LaplaceArgs : Decoded("decode_laplace", a, decode_laplace(rd, a[1], a[2]))

Rawbits ==
    /\ CanCall
    /\ \E n \in RawbitsArgs :
          LET o == rawbits(rd, n)
          IN  /\ rd' = o.rd
              /\ last' = Call("rawbits", <<n>>, rd, o.rd, o.ret)
              /\ ops' = Append(ops, <<"rawbits", o.ret>>)
    /\ UNCHANGED <<panicked, packetVars>>

\* to_end computes size_in_bits - tell() in usize: when tell() is larger the
\* subtraction panics in a build with overflow checks and wraps in one
\* without, where the wrapped sum leaves total at size_in_bits + ilog(range)
ToEnd ==
    /\ CanCall
    /\ last' = Call("to_end", <<>>, rd, rd, 0)
    /\ ops' = Append(ops, <<"to_end", 0>>)
    /\ \/ /\ ~available_underflows(rd)
          /\ rd' = to_end(rd)
          /\ panicked' = FALSE
       \/ /\ available_underflows(rd)
          /\ rd' = rd
          /\ panicked' = TRUE
       \/ /\ available_underflows(rd)
          /\ rd' = to_end(rd)
          /\ panicked' = FALSE
    /\ UNCHANGED packetVars

Next ==
    \/ DecodeLogp
    \/ DecodeIcdf
    \/ DecodeUniform
    \/ DecodeLaplace
    \/ Rawbits
    \/ ToEnd

Spec == Init /\ [][Next]_vars

(***************************************************************************)
(* Packets: what Packet::from_slice derives from the TOC configuration.    *)
(***************************************************************************)
Mode(config) ==
    IF config <= 11 THEN "SILK" ELSE IF config <= 15 THEN "HYBRID" ELSE "CELT"
Bandwidth(config) ==
    IF config <= 3 THEN "Narrow"
    ELSE IF config <= 7 THEN "Medium"
    ELSE IF config <= 11 THEN "Wide"
    ELSE IF config <= 13 THEN "SuperWide"
    ELSE IF config <= 15 THEN "Full"
    ELSE IF config <= 19 THEN "Narrow"
    ELSE IF config <= 23 THEN "Wide"
    ELSE IF config <= 27 THEN "SuperWide"
    ELSE "Full"
\* FrameDuration with the durations of CELT in every mode: not the source
FrameDuration_of_celt(config) ==
    <<120, 240, 480, 960>>[(config % 4) + 1]
FrameDuration(config) ==
    IF config <= 11 THEN <<480, 960, 1920, 2880>>[(config % 4) + 1]
    ELSE IF config <= 15 THEN <<480, 960>>[(config % 2) + 1]
    ELSE <<120, 240, 480, 960>>[(config % 4) + 1]
Packet(config, stereo, frames) ==
    [mode |-> Mode(config), stereo |-> stereo, frame_duration |-> FrameDuration(config),
     bandwidth |-> Bandwidth(config), frames |-> frames]

\* TOC configurations sent: SILK NB 20 ms and 40 ms, HYBRID SWB 20 ms, CELT FB 20 ms
ConfigVals == {1, 2, 13, 31}
\* frames sent: one whose redundancy fits (FitFrame), one whose redundancy
\* size equals its length, one with the mid LBRR flag set, one with the side
\* LBRR flag set, and the empty frame of a packet that is a TOC byte only;
\* alone, or after a FitFrame
FitFrame == <<6, 127, 152, 0, 0, 0>>
PacketFrames == {FitFrame, <<6, 127, 152, 208, 0, 0>>, <<255, 255>>, <<48, 0>>, <<>>}
FrameLists == {<<f>> : f \in PacketFrames} \cup {<<FitFrame, f>> : f \in PacketFrames}
Packets == {Packet(c, st, fs) : c \in ConfigVals, st \in BOOLEAN, fs \in FrameLists}

(***************************************************************************)
(* Silk.                                                                   *)
(***************************************************************************)
STAGE1 == [total |-> 256,
           dist |-> <<7, 9, 10, 11, 12, 22, 46, 54, 55, 56, 59, 82, 174, 197, 200, 201,
                      202, 210, 234, 244, 245, 246, 247, 249, 256>>]
STAGE3 == [total |-> 256, dist |-> <<51, 102, 154, 205, 256>>]
FRAME_TYPE_INACTIVE == [total |-> 256, dist |-> <<26, 256>>]
FRAME_TYPE_ACTIVE == [total |-> 256, dist |-> <<24, 98, 246, 256>>]

Silk_setup(sk, p, n) ==
    LET bw == IF p.bandwidth \in {"Narrow", "Medium"} THEN p.bandwidth ELSE "Wide"
        frames == IF p.frame_duration = 1920 THEN 2
                  ELSE IF p.frame_duration = 2880 THEN 3 ELSE 1
        subframes == IF p.frame_duration = 480 THEN 2 ELSE 4
        sf_size == IF bw = "Narrow" THEN 40 ELSE IF bw = "Medium" THEN 60 ELSE 80
    IN  [frames |-> frames, subframes |-> subframes, stereo |-> p.stereo,
         bandwidth |-> bw, f_size |-> sf_size * subframes, setup_for |-> n]

Celt_setup(ct, p, n) == [stereo_pkt |-> p.stereo, setup_for |-> n]

\* Let(x, F) is F(x) with x evaluated once, however often F uses it
\* (the long decoding chains write the same binding out in place:
\* CHOOSE chosen \in {body : v \in {x}} : TRUE is body with v bound to x)
Let(x, F(_)) == CHOOSE y \in {F(v) : v \in {x}} : TRUE

\* A decoding session: the range decoder, the calls made on it with their
\* results, and the events of send_packet so far.
Ev(ev, frame, info) == [ev |-> ev, frame |-> frame, info |-> info]
Session(d, calls, events) == [rd |-> d, ops |-> calls, ret |-> 0, log |-> events]
s_call(s, op, o) ==
    [s EXCEPT !.rd = o.rd, !.ops = Append(s.ops, <<op, o.ret>>), !.ret = o.ret]
s_logp(s, logp) ==
    Let(s, LAMBDA v : Let(decode_logp(v.rd, logp), LAMBDA o : s_call(v, "decode_logp", o)))
s_icdf(s, icdf) ==
    Let(s, LAMBDA v : Let(decode_icdf(v.rd, icdf), LAMBDA o : s_call(v, "decode_icdf", o)))
s_uniform(s, len) ==
    Let(s, LAMBDA v : Let(decode_uniform(v.rd, len),
                          LAMBDA o : s_call(v, "decode_uniform", o)))
s_event(s, e) == Let(s, LAMBDA v : [v EXCEPT !.log = Append(v.log, e)])

\* lp of Silk::decode: one VAD flag per SILK frame, then the LBRR flag
RECURSIVE lp_vad(_, _, _)
lp_vad(s, n, vad) ==
    IF n = 0 THEN [s |-> s, vad |-> vad]
    ELSE Let(s_logp(s, 1), LAMBDA t : lp_vad(t, n - 1, Append(vad, t.ret)))
lp(s, n) ==
    Let(lp_vad(s, n, <<>>), LAMBDA f :
        Let(s_logp(f.s, 1), LAMBDA t : [s |-> t, vad |-> f.vad, err |-> t.ret]))

parse_stereo_weight(s, vad) ==
    Let(s_icdf(s_icdf(s_icdf(s_icdf(s_icdf(s, STAGE1), STAGE2), STAGE3), STAGE2), STAGE3),
        LAMBDA a :
            Let(IF vad THEN a ELSE s_icdf(a, MID_ONLY), LAMBDA b :
                [s |-> s_event(b, Ev("silk.stereo_weight", 0, <<>>)),
                 midonly |-> IF vad THEN FALSE ELSE b.ret # 0]))

\* SilkFrame::parse as far as the range decoder sees it: the frame type,
\* then the symbols of gains, LSFs, pitch and excitation, here the contexts
\* ICDFS[extra[1]], ICDFS[extra[2]], ...
RECURSIVE parse_symbols(_, _, _)
parse_symbols(s, extra, i) ==
    IF i > Len(extra) THEN s ELSE parse_symbols(s_icdf(s, ICDFS[extra[i]]), extra, i + 1)
SilkFrame_parse(s, vad, extra, name) ==
    parse_symbols(s_icdf(s_event(s, Ev(name, 0, <<>>)),
                         IF vad THEN FRAME_TYPE_ACTIVE ELSE FRAME_TYPE_INACTIVE),
                  extra, 1)

\* the loop over the SILK frames of Silk::decode
RECURSIVE Silk_decode_frames(_, _, _, _, _, _)
Silk_decode_frames(s, sk, mid_vad, side_vad, i, extra) ==
    IF i = sk.frames THEN s
    ELSE Let(IF sk.stereo THEN parse_stereo_weight(s, side_vad[i + 1])
             ELSE [s |-> s, midonly |-> FALSE],
             LAMBDA w :
                 Let(SilkFrame_parse(w.s, mid_vad[i + 1], extra, "silk.mid.parse"),
                     LAMBDA m :
                         Silk_decode_frames(
                             s_event(IF sk.stereo /\ ~w.midonly
                                     THEN SilkFrame_parse(m, side_vad[i + 1], extra,
                                                          "silk.side.parse")
                                     ELSE IF w.midonly
                                          THEN s_event(m, Ev("silk.side.flush", 0, <<>>))
                                          ELSE m,
                                     Ev("silk.mix", 0, <<>>)),
                             sk, mid_vad, side_vad, i + 1, extra)))

\* the side channel's flags, read for a stereo packet
side_lp(s, sk) ==
    IF sk.stereo THEN lp(s, sk.frames)
    ELSE [s |-> s, vad |-> <<FALSE, FALSE, FALSE>>, err |-> FALSE]

\* Silk::decode with the side channel's LBRR flag ignored
Silk_decode_side_lbrr_ignored(s, sk, extra) ==
    Let(lp(s, sk.frames), LAMBDA m :
        IF m.err THEN [s |-> m.s, err |-> TRUE]
        ELSE Let(side_lp(m.s, sk), LAMBDA sd :
                 [s |-> Silk_decode_frames(sd.s, sk, m.vad, sd.vad, 0, extra),
                  err |-> FALSE]))
\* Silk::decode: [s |-> the session afterwards, err |-> it returned Err]
Silk_decode(s, sk, extra) ==
    Let(lp(s, sk.frames), LAMBDA m :
        IF m.err THEN [s |-> m.s, err |-> TRUE]
        ELSE Let(side_lp(m.s, sk), LAMBDA sd :
                 IF sd.err THEN [s |-> sd.s, err |-> TRUE]
                 ELSE [s |-> Silk_decode_frames(sd.s, sk, m.vad, sd.vad, 0, extra),
                       err |-> FALSE]))

\* the symbol sequences a SilkFrame::parse may draw after the frame type
RECURSIVE ParseChoices(_)
ParseChoices(n) ==
    IF n = 0 THEN {<<>>}
    ELSE LET shorter == ParseChoices(n - 1)
         IN  shorter \cup {Append(e, c) : e \in {x \in shorter : Len(x) = n - 1},
                                          c \in 1..Len(ICDFS)}

(***************************************************************************)
(* Dec::send_packet.                                                       *)
(***************************************************************************)
InitPacket ==
    /\ rd = NoDecoder /\ last = NoCall /\ ops = <<>> /\ panicked = FALSE
    /\ pc = "idle" /\ pkt = NoPacket /\ fi = 0
    /\ silk = Silk_new /\ celt = Celt_new
    /\ result = "none" /\ log = <<>> /\ npkts = 0
    /\ dec = Dec_new
    /\ smp = NoSilk
    /\ fx = NoFx

OPUS_HEAD_SIZE == 19
\* an OpusHead of len bytes with channel count, mapping family, stream count
\* and coupled count at their offsets (9, 18, 19, 20), the other bytes 0
OpusHead(len, channels, family, streams, coupled) ==
    [i \in 1..len |-> IF i = 10 THEN channels
                      ELSE IF i = 19 THEN family
                      ELSE IF i = 20 THEN streams
                      ELSE IF i = 21 THEN coupled
                      ELSE 0]
\* extradata set: empty, short mono, short with 3 channels, a head with a
\* mapping family and no table, full heads for 2 channels (right and wrong
\* stream counts) and for 3 channels
Extradatas ==
    {<<>>, OpusHead(10, 1, 0, 0, 0), OpusHead(10, 3, 0, 0, 0), OpusHead(19, 2, 1, 0, 0),
     OpusHead(23, 2, 0, 1, 1), OpusHead(23, 2, 0, 1, 0), OpusHead(24, 3, 1, 2, 1)}

\* channels = *extradata.get(9).unwrap_or(&2)
channels_of(e) == IF Len(e) >= 10 THEN e[10] ELSE 2

\* what configure does with the extradata: [ret, stereo_out], ret being Ok,
\* an error, or panic where it reaches unimplemented!()
configure(extradata) ==
    IF extradata = None THEN [ret |-> "ConfigurationIncomplete", stereo_out |-> FALSE]
    ELSE LET e == extradata[1]
             channels == channels_of(e)
             channel_map == Len(e) >= OPUS_HEAD_SIZE /\ e[19] # 0
         IN  IF Len(e) >= OPUS_HEAD_SIZE + 2 + channels
             THEN IF e[OPUS_HEAD_SIZE + 1] + e[OPUS_HEAD_SIZE + 2] # channels
                  THEN [ret |-> "panic", stereo_out |-> FALSE]
                  ELSE IF channels > 2 THEN [ret |-> "panic", stereo_out |-> FALSE]
                  ELSE [ret |-> "Ok", stereo_out |-> channels > 1]
             ELSE IF channels > 2 \/ channel_map
                  THEN [ret |-> "ConfigurationInvalid", stereo_out |-> FALSE]
                  ELSE [ret |-> "Ok", stereo_out |-> channels > 1]

\* set_extradata; the caller sets extradata and configures before it sends
\* the first packet
SetExtradata ==
    /\ pc = "idle" /\ npkts = 0
    /\ \E e \in Extradatas :
          /\ dec.extradata # Some(e)
          /\ dec' = [dec EXCEPT !.extradata = Some(e), !.called = FALSE, !.result = "none"]
    /\ UNCHANGED <<rd, last, ops, panicked, pc, pkt, fi, silk, celt, result, log, npkts, sampleVars>>

\* configure, called once for the extradata set (or for none)
Configure ==
    /\ pc = "idle" /\ npkts = 0 /\ ~dec.called
    /\ LET o == configure(dec.extradata)
       IN  /\ dec' = [dec EXCEPT !.called = TRUE, !.result = o.ret,
                                 !.silk = IF o.ret = "Ok" THEN TRUE ELSE @,
                                 !.celt = IF o.ret = "Ok" THEN TRUE ELSE @,
                                 !.stereo_out = IF o.ret = "Ok" THEN o.stereo_out ELSE @]
           /\ silk' = IF o.ret = "Ok" THEN Silk_new ELSE silk
           /\ celt' = IF o.ret = "Ok" THEN Celt_new ELSE celt
           /\ panicked' = (o.ret = "panic")
           /\ pc' = IF o.ret = "panic" THEN "panic" ELSE pc
    /\ UNCHANGED <<rd, last, ops, pkt, fi, result, log, npkts, sampleVars>>

\* send_packet on a Dec that is not configured: self.silk.as_mut().unwrap()
SendPacketUnconfigured ==
    /\ pc = "idle" /\ npkts < MaxPackets
    /\ ~(dec.silk /\ dec.celt)
    /\ panicked' = TRUE /\ pc' = "panic"
    /\ npkts' = npkts + 1
    /\ UNCHANGED <<rd, last, ops, pkt, fi, silk, celt, result, log, dec, sampleVars>>

\* send_packet is called with a packet Packet::from_slice accepts, by a
\* caller whose configure returned Ok
SendPacket ==
    /\ pc = "idle" /\ npkts < MaxPackets
    /\ dec.silk /\ dec.celt
    /\ dec.result = "Ok"
    /\ \E p \in Packets : pkt' = p
    /\ npkts' = npkts + 1
    /\ pc' = "silk_setup"
    /\ fi' = 0 /\ result' = "none" /\ log' = <<>>
    /\ UNCHANGED <<rd, last, ops, panicked, silk, celt, dec, sampleVars>>

\* if pkt.mode != Mode::CELT { silk.setup(&pkt) }
SilkSetup ==
    /\ pc = "silk_setup"
    /\ IF pkt.mode # "CELT"
       THEN /\ silk' = Silk_setup(silk, pkt, npkts)
            /\ log' = Append(log, Ev("silk.setup", 0, <<>>))
       ELSE UNCHANGED <<silk, log>>
    /\ pc' = "celt_setup"
    /\ UNCHANGED <<rd, last, ops, panicked, pkt, fi, celt, result, npkts, dec, sampleVars>>

\* if pkt.mode == Mode::CELT { celt.setup(&pkt) }
CeltSetup ==
    /\ pc = "celt_setup"
    /\ IF pkt.mode = "CELT"
       THEN /\ celt' = Celt_setup(celt, pkt, npkts)
            /\ log' = Append(log, Ev("celt.setup", 0, <<>>))
       ELSE UNCHANGED <<celt, log>>
    /\ pc' = "frame"
    /\ UNCHANGED <<rd, last, ops, panicked, pkt, fi, silk, result, npkts, dec, sampleVars>>

\* the head of the frame loop: a new RangeDecoder, then silk.decode or
\* silk.flush
SilkDecode ==
    /\ pc = "frame" /\ fi < Len(pkt.frames)
    /\ \E d \in {RangeDecoder_new(pkt.frames[fi + 1])} :
          IF pkt.mode # "CELT"
          THEN \E extra \in ParseChoices(MaxParse) :
                  \E o \in {Silk_decode(
                               Session(d, <<>>,
                                       Append(log, Ev("silk.decode", fi, <<silk.setup_for>>))),
                               silk, extra)} :
                      /\ rd' = o.s.rd /\ ops' = o.s.ops /\ log' = o.s.log
                      /\ IF o.err
                         THEN result' = "Unsupported" /\ pc' = "done"
                         ELSE result' = result /\ pc' = "probe"
          ELSE /\ rd' = d /\ ops' = <<>>
               /\ log' = Append(log, Ev("silk.flush", fi, <<>>))
               /\ result' = result /\ pc' = "probe"
    /\ UNCHANGED <<last, panicked, pkt, fi, silk, celt, npkts, dec, sampleVars>>

\* the test with > for >=
redundancy_invalid_gt(redundancy_size, size) == redundancy_size > size
\* redundancy_size >= size
redundancy_invalid(redundancy_size, size) == redundancy_size >= size

\* the redundancy probe: lines 78 to 111
Probe ==
    /\ pc = "probe"
    /\ LET size == Len(pkt.frames[fi + 1])
           consumed == tell(rd)
           hybrid == pkt.mode = "HYBRID"
       IN  \E s1 \in {IF hybrid /\ consumed + 37 <= size * 8
                      THEN s_logp(Session(rd, ops, log), 12)
                      ELSE Session(rd, ops, log)} :
           \E redundancy \in {IF hybrid /\ consumed + 37 <= size * 8 THEN s1.ret
                              ELSE pkt.mode = "SILK" /\ consumed + 17 <= size * 8} :
           \E s2 \in {IF redundancy THEN s_logp(s1, 1) ELSE s1} :
           \E s3 \in {IF redundancy /\ hybrid THEN s_uniform(s2, 256) ELSE s2} :
           \E redundancy_size \in {IF ~redundancy THEN 0
                                   ELSE IF hybrid THEN s3.ret + 2
                                   ELSE size - (consumed + 7) \div 8} :
               /\ rd' = s3.rd /\ ops' = s3.ops
               /\ log' = Append(log, Ev("probe", fi, <<redundancy, redundancy_size>>))
               /\ IF redundancy /\ redundancy_invalid(redundancy_size, size)
                  THEN result' = "InvalidData" /\ pc' = "done"
                  ELSE result' = result /\ pc' = "celt"
    /\ UNCHANGED <<last, panicked, pkt, fi, silk, celt, npkts, dec, sampleVars>>

\* if pkt.mode != Mode::SILK { celt.decode(..) }: of Celt::decode the silence
\* flag and to_end are modelled.  available() is size_in_bits - tell() in
\* usize: when tell() is larger it panics in a build with overflow checks
\* and wraps to a huge count in one without.
CeltDecode ==
    /\ pc = "celt"
    /\ IF pkt.mode = "SILK"
       THEN /\ UNCHANGED <<rd, ops, log, panicked>>
            /\ pc' = "frame" /\ fi' = fi + 1
       ELSE \E s0 \in {Session(rd, ops, Append(log, Ev("celt.decode", fi, <<celt.setup_for>>)))} :
            \E s1 \in {IF available_underflows(rd) \/ available(rd) > 0
                       THEN s_logp(s0, 15) ELSE [s0 EXCEPT !.ret = TRUE]} :
            \E silence \in {s1.ret} :
                \/ /\ available_underflows(rd)
                   /\ panicked' = TRUE /\ pc' = "panic" /\ fi' = fi
                   /\ log' = s0.log
                   /\ UNCHANGED <<rd, ops>>
                \/ /\ ~(silence /\ available_underflows(s1.rd))
                   /\ rd' = IF silence THEN to_end(s1.rd) ELSE s1.rd
                   /\ ops' = IF silence THEN Append(s1.ops, <<"to_end", 0>>) ELSE s1.ops
                   /\ log' = s1.log
                   /\ panicked' = FALSE /\ pc' = "frame" /\ fi' = fi + 1
                \/ /\ silence /\ available_underflows(s1.rd)
                   /\ \/ /\ panicked' = TRUE /\ pc' = "panic" /\ fi' = fi
                         /\ rd' = s1.rd /\ ops' = s1.ops /\ log' = s1.log
                      \/ /\ panicked' = FALSE /\ pc' = "frame" /\ fi' = fi + 1
                         /\ rd' = to_end(s1.rd)
                         /\ ops' = Append(s1.ops, <<"to_end", 0>>) /\ log' = s1.log
    /\ UNCHANGED <<last, pkt, silk, celt, result, npkts, dec, sampleVars>>

\* the frame loop is over: Ok(())
Finish ==
    /\ pc = "frame" /\ fi = Len(pkt.frames)
    /\ result' = "Ok" /\ pc' = "done"
    /\ UNCHANGED <<rd, last, ops, panicked, pkt, fi, silk, celt, log, npkts, dec, sampleVars>>

\* send_packet has returned: its locals are gone, the Dec stays
Return ==
    /\ pc = "done"
    /\ pc' = "idle"
    /\ rd' = NoDecoder /\ ops' = <<>> /\ pkt' = NoPacket /\ fi' = 0
    /\ result' = "none" /\ log' = <<>>
    /\ UNCHANGED <<last, panicked, silk, celt, npkts, dec, sampleVars>>

NextPacket ==
    \/ SetExtradata
    \/ Configure
    \/ SendPacketUnconfigured
    \/ SendPacket
    \/ SilkSetup
    \/ CeltSetup
    \/ SilkDecode
    \/ Probe
    \/ CeltDecode
    \/ Finish
    \/ Return

SpecPacket == InitPacket /\ [][NextPacket]_vars

(***************************************************************************)
(* Silk sample by sample.  A sample is an integer, UNIT standing for 1.0;  *)
(* a stereo weight is its Q13 integer (the f32 is that integer / 8192).    *)
(* What SilkFrame::parse decodes from the range decoder is an input here:  *)
(* the frame type symbol, the gain, the NLSF level, the interpolation      *)
(* weight, the pitch lag and its delta, and the synthesized samples.       *)
(***************************************************************************)
LPC_HISTORY == 322
UNIT == 4
MaxDecodes == 1

ZeroVec(n) == [i \in 1..n |-> 0]
Clamp(x, lim) == Max(-lim, Min(lim, x))

FrameType_default == [active |-> FALSE, voiced |-> FALSE, high |-> FALSE]
SilkFrame_new ==
    [frame_type |-> FrameType_default, log_gain |-> 0, coded |-> FALSE,
     prev_voiced |-> FALSE, nlsfs |-> ZeroVec(16), lpc |-> ZeroVec(16),
     interpolated_lpc |-> ZeroVec(16), interpolated |-> FALSE,
     interp_factor4 |-> FALSE, previous_lag |-> 0,
     output |-> ZeroVec(2 * LPC_HISTORY), lpc_history |-> ZeroVec(2 * LPC_HISTORY)]

\* SilkFrame::flush with output and lpc_history left as they are
SilkFrame_flush_keeps_samples(f) ==
    IF f.coded
    THEN [f EXCEPT !.log_gain = 0, !.coded = FALSE, !.prev_voiced = FALSE,
                   !.nlsfs = ZeroVec(16), !.lpc = ZeroVec(16),
                   !.interpolated_lpc = ZeroVec(16), !.interpolated = FALSE,
                   !.interp_factor4 = FALSE, !.previous_lag = 0]
    ELSE f
\* SilkFrame::flush
SilkFrame_flush(f) ==
    IF f.coded
    THEN [f EXCEPT !.log_gain = 0, !.coded = FALSE, !.prev_voiced = FALSE,
                   !.nlsfs = ZeroVec(16), !.lpc = ZeroVec(16),
                   !.interpolated_lpc = ZeroVec(16), !.interpolated = FALSE,
                   !.interp_factor4 = FALSE, !.previous_lag = 0,
                   !.output = ZeroVec(2 * LPC_HISTORY),
                   !.lpc_history = ZeroVec(2 * LPC_HISTORY)]
    ELSE f

\* the frame type of a FRAME_TYPE_ACTIVE / FRAME_TYPE_INACTIVE symbol
frame_type_of(vad, sym) ==
    IF vad THEN [active |-> TRUE, voiced |-> sym >= 2, high |-> sym % 2 = 1]
    ELSE [active |-> FALSE, voiced |-> FALSE, high |-> sym # 0]

ORDER(bandwidth) == IF bandwidth = "Wide" THEN 16 ELSE 10

\* the LPC coefficients of an NLSF vector, as far as this part follows them
lpc_of(nlsfs, order) == [i \in 1..order |-> nlsfs[i] \div 8 + 1]

\* the first n entries of v replaced by those of w
copy_from_slice(v, w, n) == [i \in 1..Len(v) |-> IF i <= n THEN w[i] ELSE v[i]]

\* parse_lpc: the NLSFs decoded are x.nlsf in every place
parse_lpc(f, order, interpolate, x) ==
    LET nlsfs == [i \in 1..order |-> x.nlsf]
        interpolated == interpolate /\ x.weight # 4 /\ f.coded
        interpolated_nlsfs ==
            [i \in 1..order |-> f.nlsfs[i] + ((nlsfs[i] - f.nlsfs[i]) * x.weight) \div 4]
    IN  [f EXCEPT !.interpolated = interpolated,
                  !.interp_factor4 = ~interpolated,
                  !.interpolated_lpc =
                      IF ~interpolated THEN @
                      ELSE IF x.weight # 0
                           THEN copy_from_slice(@, lpc_of(interpolated_nlsfs, order), order)
                           ELSE copy_from_slice(@, f.lpc, order),
                  !.nlsfs = copy_from_slice(@, nlsfs, order),
                  !.lpc = copy_from_slice(@, lpc_of(nlsfs, order), order)]

\* parse_pitch_lags, as far as previous_lag
parse_pitch_lags(f, absolute, x) ==
    [f EXCEPT !.previous_lag = IF ~absolute /\ x.delta # 0 THEN @ + x.delta - 9
                               ELSE x.lag]

\* the sample the synthesis filter yields at place k of the frame
Wave(v, k) == v * ((k % 5) - 2)

\* the synthesis loop: f_size new samples behind the history
synthesize(f, f_size, x) ==
    [f EXCEPT !.lpc_history = [i \in 1..Len(@) |->
                                  IF i > LPC_HISTORY /\ i <= LPC_HISTORY + f_size
                                  THEN Wave(x.wave, i - LPC_HISTORY - 1) ELSE @[i]],
              !.output = [i \in 1..Len(@) |->
                             IF i > LPC_HISTORY /\ i <= LPC_HISTORY + f_size
                             THEN Clamp(Wave(x.wave, i - LPC_HISTORY - 1), UNIT) ELSE @[i]]]

\* the history windows slid by the size of a subframe
slide_by_subframe(v, info) ==
    [i \in 1..Len(v) |-> IF i <= LPC_HISTORY THEN v[i + info.sf_size] ELSE v[i]]
\* for i in 0..LPC_HISTORY { v[i] = v[i + info.f_size] }
slide(v, info) ==
    [i \in 1..Len(v) |-> IF i <= LPC_HISTORY THEN v[i + info.f_size] ELSE v[i]]

\* SilkFrame::parse on the frame's fields
SilkFrame_parse_samples(f, info, vad, first, x) ==
    LET ft == frame_type_of(vad, x.type)
        f1 == [f EXCEPT !.frame_type = ft, !.log_gain = x.gain]
        f2 == parse_lpc(f1, ORDER(info.bandwidth), info.subframes = 4, x)
        f3 == IF ft.voiced THEN parse_pitch_lags(f2, first \/ ~f.prev_voiced, x) ELSE f2
        f4 == synthesize(f3, info.f_size, x)
    IN  [f4 EXCEPT !.prev_voiced = ft.voiced,
                   !.lpc_history = slide(@, info),
                   !.output = slide(@, info),
                   !.coded = TRUE]

\* the stereo weight table
w_q13 ==
    <<-13732, -10050, -8266, -7526, -6500, -5000, -2950, -820, 820, 2950, 5000, 6500,
      7526, 8266, 10050, 13732>>
\* floor(x / 2^n), the arithmetic shift
Asr(x, n) == IF x >= 0 THEN x \div (2 ^ n) ELSE -((-x + 2 ^ n - 1) \div (2 ^ n))
weight(idx, scale) ==
    w_q13[idx + 1] + Asr((w_q13[idx + 2] - w_q13[idx + 1]) * 6554, 16) * scale
\* the weights parse_stereo_weight sets from the symbols y = <<n, STAGE2,
\* STAGE3, STAGE2, STAGE3>>: <<weight0, weight1>> times 8192
stereo_weights(y) ==
    LET w0 == weight(y[2] + 3 * (y[1] \div 5), y[3] * 2 + 1)
        w1 == weight(y[4] + 3 * (y[1] % 5), y[5] * 2 + 1)
    IN  <<w0 - w1, w1>>

\* left and right samples are kept times OUT_DEN: 8192 (Q13), 384 (a
\* multiple of every interpolation length), 4 (the low-pass)
OUT_DEN == 8192 * 384 * 4
interp_len(bandwidth) ==
    IF bandwidth = "Narrow" THEN 64 ELSE IF bandwidth = "Medium" THEN 96 ELSE 128

\* unmix_ms at place t of the frame: <<left, right>>
unmix_sample(s, t) ==
    LET info == s.info
        in_start == LPC_HISTORY - info.f_size
        n1 == interp_len(info.bandwidth)
        m0 == s.mid_frame.output[in_start - 2 + t + 1]
        m1 == s.mid_frame.output[in_start - 2 + t + 2]
        m2 == s.mid_frame.output[in_start - 2 + t + 3]
        sv == s.side_frame.output[in_start - 1 + t + 1]
        i0 == IF t < n1 THEN (info.prev0 * n1 + t * (info.weight0 - info.prev0)) * (384 \div n1)
              ELSE info.weight0 * 384
        i1 == IF t < n1 THEN (info.prev1 * n1 + t * (info.weight1 - info.prev1)) * (384 \div n1)
              ELSE info.weight1 * 384
        p0 == m0 + 2 * m1 + m2
        si0 == sv * OUT_DEN + i0 * p0
    IN  <<Clamp((8192 * 384 - i1) * 4 * m1 - si0, UNIT * OUT_DEN),
          Clamp((8192 * 384 + i1) * 4 * m1 + si0, UNIT * OUT_DEN)>>

\* the mixdown of frame s.i of Silk::decode: unmix_ms for a stereo packet
\* decoded to stereo, a copy of the mid frame otherwise
mixdown(s) ==
    LET f_size == s.info.f_size
        start == s.i * f_size
        in_start == LPC_HISTORY - f_size - 2
        here(j) == j > start /\ j <= start + f_size
    IN  IF s.stereo /\ s.stereo_out
        THEN [s EXCEPT !.left_outbuf = [j \in 1..Len(@) |->
                           IF here(j) THEN unmix_sample(s, j - start - 1)[1] ELSE @[j]],
                       !.right_outbuf = [j \in 1..Len(@) |->
                           IF here(j) THEN unmix_sample(s, j - start - 1)[2] ELSE @[j]],
                       !.info.prev0 = s.info.weight0,
                       !.info.prev1 = s.info.weight1]
        ELSE [s EXCEPT !.left_outbuf = [j \in 1..Len(@) |->
                           IF here(j) /\ s.stereo_out
                           THEN s.mid_frame.output[in_start + j - start] * OUT_DEN ELSE @[j]],
                       !.right_outbuf = [j \in 1..Len(@) |->
                           IF here(j)
                           THEN s.mid_frame.output[in_start + j - start] * OUT_DEN ELSE @[j]]]

Resize(v, n) == [i \in 1..n |-> IF i <= Len(v) THEN v[i] ELSE 0]

\* Silk::new(stereo_out), with the position of Silk::decode
Silk_samples_new(stereo_out) ==
    [pc |-> "idle", stereo |-> TRUE, stereo_out |-> stereo_out, frames |-> 0,
     info |-> [bandwidth |-> "Full", subframes |-> 0, sf_size |-> 0, f_size |-> 0,
               weight0 |-> 0, weight1 |-> 0, prev0 |-> 0, prev1 |-> 0],
     mid_frame |-> SilkFrame_new, side_frame |-> SilkFrame_new,
     left_outbuf |-> ZeroVec(960), right_outbuf |-> ZeroVec(960),
     i |-> 0, mid_vad |-> <<FALSE, FALSE, FALSE>>, side_vad |-> <<FALSE, FALSE, FALSE>>,
     midonly |-> FALSE,
     events |-> <<>>, ndec |-> 0,
     step |-> "new", before |-> SilkFrame_new, x |-> <<>>]

\* the SILK packets set up for: NB 10 ms, MB 40 ms (two SILK frames), WB 20 ms
SilkConfigs == {0, 6, 9}
\* the symbols of the stereo weights: both weights 0, both the highest
WeightSyms == {<<12, 1, 2, 1, 2>>, <<24, 2, 4, 2, 4>>}
\* what a parse decodes: a silent frame, a quiet unvoiced one, a loud voiced
\* one that clips
ParseInputs ==
    {[type |-> 0, gain |-> 8, nlsf |-> 1024, weight |-> 4, lag |-> 0, delta |-> 0, wave |-> 0],
     [type |-> 1, gain |-> 24, nlsf |-> 4096, weight |-> 0, lag |-> 0, delta |-> 0, wave |-> 1],
     [type |-> 2, gain |-> 40, nlsf |-> 8192, weight |-> 2, lag |-> 100, delta |-> 12, wave |-> 3]}
ParseInputsFor(vad) == {x \in ParseInputs : vad \/ x.type < 2}

SilkOnly ==
    UNCHANGED <<rd, last, ops, panicked, pc, pkt, fi, silk, celt, result, log, npkts, dec, fx>>

InitSilk ==
    /\ rd = NoDecoder /\ last = NoCall /\ ops = <<>> /\ panicked = FALSE
    /\ pc = "silk" /\ pkt = NoPacket /\ fi = 0
    /\ silk = Silk_new /\ celt = Celt_new
    /\ result = "none" /\ log = <<>> /\ npkts = 0
    /\ dec = Dec_new
    /\ \E stereo_out \in BOOLEAN : smp = Silk_samples_new(stereo_out)
    /\ fx = NoFx

\* Silk::setup
SampleSetup ==
    /\ smp.pc = "idle" /\ smp.ndec < MaxDecodes
    /\ \E c \in SilkConfigs, st \in BOOLEAN :
          LET k == Silk_setup(Silk_new, Packet(c, st, <<>>), 0)
          IN  smp' = [smp EXCEPT !.pc = "setup",
                                 !.stereo = k.stereo, !.frames = k.frames,
                                 !.info.bandwidth = k.bandwidth,
                                 !.info.subframes = k.subframes,
                                 !.info.sf_size = k.f_size \div k.subframes,
                                 !.info.f_size = k.f_size,
                                 !.left_outbuf = Resize(@, k.f_size * k.frames),
                                 !.right_outbuf = Resize(@, k.f_size * k.frames),
                                 !.step = "setup"]
    /\ SilkOnly

\* where Silk::decode goes on at the head of frame i
frame_head(s) == IF s.i = s.frames THEN "idle" ELSE IF s.stereo THEN "weight" ELSE "mid"

\* Silk::decode up to its loop: the VAD flags of the frames, read by lp with
\* no LBRR flag set
SampleDecode ==
    /\ smp.pc = "setup"
    /\ \E mv \in SUBSET (1..smp.frames), sv \in SUBSET (1..smp.frames) :
          /\ smp.stereo \/ sv = {}
          /\ smp' = [smp EXCEPT !.i = 0,
                                !.mid_vad = [j \in 1..3 |-> j \in mv],
                                !.side_vad = [j \in 1..3 |-> j \in sv],
                                !.midonly = FALSE, !.events = <<>>,
                                !.pc = IF smp.stereo THEN "weight" ELSE "mid",
                                !.step = "decode"]
    /\ SilkOnly

\* parse_stereo_weight
SampleStereoWeight ==
    /\ smp.pc = "weight"
    /\ \E y \in WeightSyms, mo \in BOOLEAN :
          /\ smp.side_vad[smp.i + 1] => ~mo
          /\ smp' = [smp EXCEPT !.info.weight0 = stereo_weights(y)[1],
                                !.info.weight1 = stereo_weights(y)[2],
                                !.midonly = mo,
                                !.events = Append(@, <<"stereo_weight", smp.i>>),
                                !.pc = "mid", !.step = "stereo_weight"]
    /\ SilkOnly

\* where Silk::decode goes on after mid_frame.parse, with the side frame not
\* flushed
after_mid_no_flush(s) ==
    IF s.stereo /\ ~s.midonly THEN "side" ELSE "mix"
\* where Silk::decode goes on after mid_frame.parse
after_mid(s) ==
    IF s.stereo /\ ~s.midonly THEN "side" ELSE IF s.midonly THEN "flush" ELSE "mix"

\* self.mid_frame.parse(rd, &self.info, mid_vad[i], first)
SampleMidParse ==
    /\ smp.pc = "mid"
    /\ \E x \in ParseInputsFor(smp.mid_vad[smp.i + 1]) :
          smp' = [smp EXCEPT !.mid_frame =
                                 SilkFrame_parse_samples(@, smp.info, smp.mid_vad[smp.i + 1],
                                                         smp.i = 0, x),
                             !.events = Append(@, <<"mid.parse", smp.i>>),
                             !.pc = after_mid(smp),
                             !.step = "mid.parse", !.before = smp.mid_frame, !.x = x]
    /\ SilkOnly

\* self.side_frame.parse(rd, &self.info, side_vad[i], first)
SampleSideParse ==
    /\ smp.pc = "side"
    /\ \E x \in ParseInputsFor(smp.side_vad[smp.i + 1]) :
          smp' = [smp EXCEPT !.side_frame =
                                 SilkFrame_parse_samples(@, smp.info, smp.side_vad[smp.i + 1],
                                                         smp.i = 0, x),
                             !.events = Append(@, <<"side.parse", smp.i>>),
                             !.pc = "mix",
                             !.step = "side.parse", !.before = smp.side_frame, !.x = x]
    /\ SilkOnly

\* if midonly { self.side_frame.flush() }
SampleSideFlush ==
    /\ smp.pc = "flush"
    /\ smp' = [smp EXCEPT !.side_frame = SilkFrame_flush(@),
                          !.events = Append(@, <<"side.flush", smp.i>>),
                          !.pc = "mix",
                          !.step = "side.flush", !.before = smp.side_frame]
    /\ SilkOnly

\* the mixdown, and the end of the loop body
SampleMix ==
    /\ smp.pc = "mix"
    /\ \E m \in {mixdown(smp)} :
          smp' = [m EXCEPT !.events = Append(@, <<"mix", smp.i>>),
                           !.i = smp.i + 1,
                           !.pc = frame_head([smp EXCEPT !.i = smp.i + 1]),
                           !.ndec = IF smp.i + 1 = smp.frames THEN @ + 1 ELSE @,
                           !.step = "mix"]
    /\ SilkOnly

NextSilk ==
    \/ SampleSetup
    \/ SampleDecode
    \/ SampleStereoWeight
    \/ SampleMidParse
    \/ SampleSideParse
    \/ SampleSideFlush
    \/ SampleMix

SpecSilk == InitSilk /\ [][NextSilk]_vars

(***************************************************************************)
(* The ICDF contexts the SILK and CELT decoders pass to decode_icdf.       *)
(***************************************************************************)
\* the ICDF contexts of silk.rs but PULSE_COUNT, in the order of the source
SILK_ICDFS ==
    <<[name |-> "STAGE1", total |-> 256, dist |-> <<7, 9, 10, 11, 12, 22, 46, 54, 55, 56, 59,
               82, 174, 197, 200, 201, 202, 210, 234, 244, 245, 246, 247, 249, 256>>],
      [name |-> "STAGE2", total |-> 256, dist |-> <<85, 171, 256>>],
      [name |-> "STAGE3", total |-> 256, dist |-> <<51, 102, 154, 205, 256>>],
      [name |-> "MID_ONLY", total |-> 256, dist |-> <<192, 256>>],
      [name |-> "FRAME_TYPE_INACTIVE", total |-> 256, dist |-> <<26, 256>>],
      [name |-> "FRAME_TYPE_ACTIVE", total |-> 256, dist |-> <<24, 98, 246, 256>>],
      [name |-> "MSB_SUBFRAME_GAIN[0]", total |-> 256, dist |-> <<32, 144, 212, 241, 253, 254,
               255, 256>>],
      [name |-> "MSB_SUBFRAME_GAIN[1]", total |-> 256, dist |-> <<2, 19, 64, 124, 186, 233,
               252, 256>>],
      [name |-> "MSB_SUBFRAME_GAIN[2]", total |-> 256, dist |-> <<1, 4, 30, 101, 195, 245,
               254, 256>>],
      [name |-> "LSB_SUBFRAME_GAIN", total |-> 256, dist |-> <<32, 64, 96, 128, 160, 192, 224,
               256>>],
      [name |-> "DELTA_SUBFRAME_GAIN", total |-> 256, dist |-> <<6, 11, 22, 53, 185, 206, 214,
               218, 221, 223, 225, 227, 228, 229, 230, 231, 232, 233, 234, 235, 236, 237, 238,
               239, 240, 241, 242, 243, 244, 245, 246, 247, 248, 249, 250, 251, 252, 253, 254,
               255, 256>>],
      [name |-> "LSF_STAGE1_NB_MB[0]", total |-> 256, dist |-> <<44, 78, 108, 127, 148, 160,
               171, 174, 177, 179, 195, 197, 199, 200, 205, 207, 208, 211, 214, 215, 216, 218,
               220, 222, 225, 226, 235, 244, 246, 253, 255, 256>>],
      [name |-> "LSF_STAGE1_NB_MB[1]", total |-> 256, dist |-> <<1, 11, 12, 20, 23, 31, 39,
               53, 66, 80, 81, 95, 107, 120, 131, 142, 154, 165, 175, 185, 196, 204, 213, 221,
               228, 236, 237, 238, 244, 245, 251, 256>>],
      [name |-> "LSF_STAGE1_WB[0]", total |-> 256, dist |-> <<31, 52, 55, 72, 73, 81, 98, 102,
               103, 121, 137, 141, 143, 146, 147, 157, 158, 161, 177, 188, 204, 206, 208, 211,
               213, 224, 225, 229, 238, 246, 253, 256>>],
      [name |-> "LSF_STAGE1_WB[1]", total |-> 256, dist |-> <<1, 5, 21, 26, 44, 55, 60, 74,
               89, 90, 93, 105, 118, 132, 146, 152, 166, 178, 180, 186, 187, 199, 211, 222,
               232, 235, 245, 250, 251, 252, 253, 256>>],
      [name |-> "A", total |-> 256, dist |-> <<1, 2, 3, 18, 242, 253, 254, 255, 256>>],
      [name |-> "B", total |-> 256, dist |-> <<1, 2, 4, 38, 221, 253, 254, 255, 256>>],
      [name |-> "C", total |-> 256, dist |-> <<1, 2, 6, 48, 197, 252, 254, 255, 256>>],
      [name |-> "D", total |-> 256, dist |-> <<1, 2, 10, 62, 185, 246, 254, 255, 256>>],
      [name |-> "E", total |-> 256, dist |-> <<1, 4, 20, 73, 174, 248, 254, 255, 256>>],
      [name |-> "F", total |-> 256, dist |-> <<1, 4, 21, 76, 166, 239, 254, 255, 256>>],
      [name |-> "G", total |-> 256, dist |-> <<1, 8, 32, 85, 159, 226, 252, 255, 256>>],
      [name |-> "H", total |-> 256, dist |-> <<1, 2, 20, 83, 161, 219, 249, 255, 256>>],
      [name |-> "I", total |-> 256, dist |-> <<1, 2, 3, 12, 244, 253, 254, 255, 256>>],
      [name |-> "J", total |-> 256, dist |-> <<1, 2, 4, 32, 218, 253, 254, 255, 256>>],
      [name |-> "K", total |-> 256, dist |-> <<1, 2, 5, 47, 199, 252, 254, 255, 256>>],
      [name |-> "L", total |-> 256, dist |-> <<1, 2, 12, 61, 187, 252, 254, 255, 256>>],
      [name |-> "M", total |-> 256, dist |-> <<1, 5, 24, 72, 172, 249, 254, 255, 256>>],
      [name |-> "N", total |-> 256, dist |-> <<1, 2, 16, 70, 170, 242, 254, 255, 256>>],
      [name |-> "O", total |-> 256, dist |-> <<1, 2, 17, 78, 165, 226, 251, 255, 256>>],
      [name |-> "P", total |-> 256, dist |-> <<1, 8, 29, 79, 156, 237, 254, 255, 256>>],
      [name |-> "LSF_STAGE2_EXTENSION", total |-> 256, dist |-> <<156, 216, 240, 249, 253,
               255, 256>>],
      [name |-> "LSF_INTERPOLATION_INDEX", total |-> 256, dist |-> <<13, 35, 64, 75, 256>>],
      [name |-> "PITCH_DELTA", total |-> 256, dist |-> <<46, 48, 50, 53, 57, 63, 73, 88, 114,
               152, 182, 204, 219, 229, 236, 242, 246, 250, 252, 254, 256>>],
      [name |-> "PITCH_HIGH_PART", total |-> 256, dist |-> <<3, 6, 12, 23, 44, 74, 106, 125,
               136, 146, 158, 171, 184, 196, 207, 216, 224, 231, 237, 241, 243, 245, 247, 248,
               249, 250, 251, 252, 253, 254, 255, 256>>],
      [name |-> "PITCH_CONTOUR_NB[0]", total |-> 256, dist |-> <<143, 193, 256>>],
      [name |-> "PITCH_CONTOUR_NB[1]", total |-> 256, dist |-> <<68, 80, 101, 118, 137, 159,
               189, 213, 230, 246, 256>>],
      [name |-> "PITCH_CONTOUR_MB_WB[0]", total |-> 256, dist |-> <<91, 137, 176, 195, 209,
               221, 229, 236, 242, 247, 252, 256>>],
      [name |-> "PITCH_CONTOUR_MB_WB[1]", total |-> 256, dist |-> <<33, 55, 73, 89, 104, 118,
               132, 145, 158, 168, 177, 186, 194, 200, 206, 212, 217, 221, 225, 229, 232, 235,
               238, 240, 242, 244, 246, 248, 250, 252, 253, 254, 255, 256>>],
      [name |-> "LOW_PART[0]", total |-> 256, dist |-> <<64, 128, 192, 256>>],
      [name |-> "LOW_PART[1]", total |-> 256, dist |-> <<43, 85, 128, 171, 213, 256>>],
      [name |-> "LOW_PART[2]", total |-> 256, dist |-> <<32, 64, 96, 128, 160, 192, 224,
               256>>],
      [name |-> "LTP_PERIODICITY", total |-> 256, dist |-> <<77, 157, 256>>],
      [name |-> "LTP_FILTER[0]", total |-> 256, dist |-> <<185, 200, 213, 226, 235, 244, 250,
               256>>],
      [name |-> "LTP_FILTER[1]", total |-> 256, dist |-> <<57, 91, 112, 132, 147, 160, 172,
               185, 195, 205, 214, 224, 233, 241, 248, 256>>],
      [name |-> "LTP_FILTER[2]", total |-> 256, dist |-> <<15, 31, 45, 57, 69, 81, 92, 103,
               114, 124, 133, 142, 151, 160, 168, 176, 184, 192, 199, 206, 212, 218, 223, 227,
               232, 236, 240, 244, 247, 251, 254, 256>>],
      [name |-> "LTP_SCALE_INDEX", total |-> 256, dist |-> <<128, 192, 256>>],
      [name |-> "LCG_SEED", total |-> 256, dist |-> <<64, 128, 192, 256>>],
      [name |-> "EXC_RATE[0]", total |-> 256, dist |-> <<15, 66, 78, 124, 169, 182, 215, 242,
               256>>],
      [name |-> "EXC_RATE[1]", total |-> 256, dist |-> <<33, 63, 99, 116, 150, 199, 217, 238,
               256>>],
      [name |-> "PULSE_LOCATION[0]", total |-> 256, dist |-> <<126, 256>>],
      [name |-> "PULSE_LOCATION[1]", total |-> 256, dist |-> <<56, 198, 256>>],
      [name |-> "PULSE_LOCATION[2]", total |-> 256, dist |-> <<25, 126, 230, 256>>],
      [name |-> "PULSE_LOCATION[3]", total |-> 256, dist |-> <<12, 72, 180, 244, 256>>],
      [name |-> "PULSE_LOCATION[4]", total |-> 256, dist |-> <<7, 42, 126, 213, 250, 256>>],
      [name |-> "PULSE_LOCATION[5]", total |-> 256, dist |-> <<4, 24, 83, 169, 232, 253,
               256>>],
      [name |-> "PULSE_LOCATION[6]", total |-> 256, dist |-> <<3, 15, 53, 125, 200, 242, 254,
               256>>],
      [name |-> "PULSE_LOCATION[7]", total |-> 256, dist |-> <<2, 10, 35, 89, 162, 221, 248,
               255, 256>>],
      [name |-> "PULSE_LOCATION[8]", total |-> 256, dist |-> <<2, 7, 24, 63, 126, 191, 233,
               251, 255, 256>>],
      [name |-> "PULSE_LOCATION[9]", total |-> 256, dist |-> <<1, 5, 17, 45, 94, 157, 211,
               241, 252, 255, 256>>],
      [name |-> "PULSE_LOCATION[10]", total |-> 256, dist |-> <<1, 5, 13, 33, 70, 125, 182,
               223, 245, 253, 255, 256>>],
      [name |-> "PULSE_LOCATION[11]", total |-> 256, dist |-> <<1, 4, 11, 26, 54, 98, 151,
               199, 232, 248, 254, 255, 256>>],
      [name |-> "PULSE_LOCATION[12]", total |-> 256, dist |-> <<1, 3, 9, 21, 42, 77, 124, 172,
               212, 237, 249, 254, 255, 256>>],
      [name |-> "PULSE_LOCATION[13]", total |-> 256, dist |-> <<1, 2, 6, 16, 33, 60, 97, 144,
               187, 220, 241, 250, 254, 255, 256>>],
      [name |-> "PULSE_LOCATION[14]", total |-> 256, dist |-> <<1, 2, 3, 11, 25, 47, 80, 120,
               163, 201, 229, 245, 253, 254, 255, 256>>],
      [name |-> "PULSE_LOCATION[15]", total |-> 256, dist |-> <<1, 2, 3, 4, 17, 35, 62, 98,
               139, 180, 214, 238, 252, 253, 254, 255, 256>>],
      [name |-> "PULSE_LOCATION[16]", total |-> 256, dist |-> <<127, 256>>],
      [name |-> "PULSE_LOCATION[17]", total |-> 256, dist |-> <<53, 202, 256>>],
      [name |-> "PULSE_LOCATION[18]", total |-> 256, dist |-> <<22, 127, 233, 256>>],
      [name |-> "PULSE_LOCATION[19]", total |-> 256, dist |-> <<11, 72, 183, 246, 256>>],
      [name |-> "PULSE_LOCATION[20]", total |-> 256, dist |-> <<6, 41, 127, 215, 251, 256>>],
      [name |-> "PULSE_LOCATION[21]", total |-> 256, dist |-> <<4, 24, 83, 170, 232, 253,
               256>>],
      [name |-> "PULSE_LOCATION[22]", total |-> 256, dist |-> <<3, 16, 56, 127, 200, 241, 254,
               256>>],
      [name |-> "PULSE_LOCATION[23]", total |-> 256, dist |-> <<3, 12, 39, 92, 162, 218, 246,
               255, 256>>],
      [name |-> "PULSE_LOCATION[24]", total |-> 256, dist |-> <<3, 11, 30, 67, 124, 185, 229,
               249, 255, 256>>],
      [name |-> "PULSE_LOCATION[25]", total |-> 256, dist |-> <<3, 10, 25, 53, 97, 151, 200,
               233, 250, 255, 256>>],
      [name |-> "PULSE_LOCATION[26]", total |-> 256, dist |-> <<1, 8, 21, 43, 77, 123, 171,
               209, 237, 251, 255, 256>>],
      [name |-> "PULSE_LOCATION[27]", total |-> 256, dist |-> <<1, 2, 13, 35, 62, 97, 139,
               186, 219, 244, 254, 255, 256>>],
      [name |-> "PULSE_LOCATION[28]", total |-> 256, dist |-> <<1, 2, 8, 22, 48, 85, 128, 171,
               208, 234, 248, 254, 255, 256>>],
      [name |-> "PULSE_LOCATION[29]", total |-> 256, dist |-> <<1, 2, 6, 16, 36, 67, 107, 149,
               189, 220, 240, 250, 254, 255, 256>>],
      [name |-> "PULSE_LOCATION[30]", total |-> 256, dist |-> <<1, 2, 5, 13, 29, 55, 90, 128,
               166, 201, 227, 243, 251, 254, 255, 256>>],
      [name |-> "PULSE_LOCATION[31]", total |-> 256, dist |-> <<1, 2, 4, 10, 22, 43, 73, 109,
               147, 183, 213, 234, 246, 252, 254, 255, 256>>],
      [name |-> "PULSE_LOCATION[32]", total |-> 256, dist |-> <<127, 256>>],
      [name |-> "PULSE_LOCATION[33]", total |-> 256, dist |-> <<49, 206, 256>>],
      [name |-> "PULSE_LOCATION[34]", total |-> 256, dist |-> <<20, 127, 236, 256>>],
      [name |-> "PULSE_LOCATION[35]", total |-> 256, dist |-> <<11, 71, 184, 246, 256>>],
      [name |-> "PULSE_LOCATION[36]", total |-> 256, dist |-> <<7, 43, 127, 214, 250, 256>>],
      [name |-> "PULSE_LOCATION[37]", total |-> 256, dist |-> <<6, 30, 87, 169, 229, 252,
               256>>],
      [name |-> "PULSE_LOCATION[38]", total |-> 256, dist |-> <<5, 23, 62, 126, 194, 236, 252,
               256>>],
      [name |-> "PULSE_LOCATION[39]", total |-> 256, dist |-> <<6, 20, 49, 96, 157, 209, 239,
               253, 256>>],
      [name |-> "PULSE_LOCATION[40]", total |-> 256, dist |-> <<1, 16, 39, 74, 125, 175, 215,
               245, 255, 256>>],
      [name |-> "PULSE_LOCATION[41]", total |-> 256, dist |-> <<1, 2, 23, 55, 97, 149, 195,
               236, 254, 255, 256>>],
      [name |-> "PULSE_LOCATION[42]", total |-> 256, dist |-> <<1, 7, 23, 50, 86, 128, 170,
               206, 233, 249, 255, 256>>],
      [name |-> "PULSE_LOCATION[43]", total |-> 256, dist |-> <<1, 6, 18, 39, 70, 108, 148,
               186, 217, 238, 250, 255, 256>>],
      [name |-> "PULSE_LOCATION[44]", total |-> 256, dist |-> <<1, 4, 13, 30, 56, 90, 128,
               166, 200, 226, 243, 252, 255, 256>>],
      [name |-> "PULSE_LOCATION[45]", total |-> 256, dist |-> <<1, 4, 11, 25, 47, 76, 110,
               146, 180, 209, 231, 245, 252, 255, 256>>],
      [name |-> "PULSE_LOCATION[46]", total |-> 256, dist |-> <<1, 3, 8, 19, 37, 62, 93, 128,
               163, 194, 219, 237, 248, 253, 255, 256>>],
      [name |-> "PULSE_LOCATION[47]", total |-> 256, dist |-> <<1, 2, 6, 15, 30, 51, 79, 111,
               145, 177, 205, 226, 241, 250, 254, 255, 256>>],
      [name |-> "PULSE_LOCATION[48]", total |-> 256, dist |-> <<128, 256>>],
      [name |-> "PULSE_LOCATION[49]", total |-> 256, dist |-> <<42, 214, 256>>],
      [name |-> "PULSE_LOCATION[50]", total |-> 256, dist |-> <<21, 128, 235, 256>>],
      [name |-> "PULSE_LOCATION[51]", total |-> 256, dist |-> <<12, 72, 184, 245, 256>>],
      [name |-> "PULSE_LOCATION[52]", total |-> 256, dist |-> <<8, 42, 128, 214, 249, 256>>],
      [name |-> "PULSE_LOCATION[53]", total |-> 256, dist |-> <<8, 31, 86, 176, 231, 251,
               256>>],
      [name |-> "PULSE_LOCATION[54]", total |-> 256, dist |-> <<5, 20, 58, 130, 202, 238, 253,
               256>>],
      [name |-> "PULSE_LOCATION[55]", total |-> 256, dist |-> <<6, 18, 45, 97, 174, 221, 241,
               251, 256>>],
      [name |-> "PULSE_LOCATION[56]", total |-> 256, dist |-> <<6, 25, 53, 88, 128, 168, 203,
               231, 250, 256>>],
      [name |-> "PULSE_LOCATION[57]", total |-> 256, dist |-> <<4, 18, 40, 71, 108, 148, 185,
               216, 238, 252, 256>>],
      [name |-> "PULSE_LOCATION[58]", total |-> 256, dist |-> <<3, 13, 31, 57, 90, 128, 166,
               199, 225, 243, 253, 256>>],
      [name |-> "PULSE_LOCATION[59]", total |-> 256, dist |-> <<2, 10, 23, 44, 73, 109, 147,
               183, 212, 233, 246, 254, 256>>],
      [name |-> "PULSE_LOCATION[60]", total |-> 256, dist |-> <<1, 6, 16, 33, 58, 90, 128,
               166, 198, 223, 240, 250, 255, 256>>],
      [name |-> "PULSE_LOCATION[61]", total |-> 256, dist |-> <<1, 5, 12, 25, 46, 75, 110,
               146, 181, 210, 231, 244, 251, 255, 256>>],
      [name |-> "PULSE_LOCATION[62]", total |-> 256, dist |-> <<1, 3, 8, 18, 35, 60, 92, 128,
               164, 196, 221, 238, 248, 253, 255, 256>>],
      [name |-> "PULSE_LOCATION[63]", total |-> 256, dist |-> <<1, 3, 7, 14, 27, 48, 76, 110,
               146, 180, 208, 229, 242, 249, 253, 255, 256>>],
      [name |-> "EXC_LSB", total |-> 256, dist |-> <<136, 256>>],
      [name |-> "EXC_SIGN[0]", total |-> 256, dist |-> <<2, 256>>],
      [name |-> "EXC_SIGN[1]", total |-> 256, dist |-> <<207, 256>>],
      [name |-> "EXC_SIGN[2]", total |-> 256, dist |-> <<189, 256>>],
      [name |-> "EXC_SIGN[3]", total |-> 256, dist |-> <<179, 256>>],
      [name |-> "EXC_SIGN[4]", total |-> 256, dist |-> <<174, 256>>],
      [name |-> "EXC_SIGN[5]", total |-> 256, dist |-> <<163, 256>>],
      [name |-> "EXC_SIGN[6]", total |-> 256, dist |-> <<157, 256>>],
      [name |-> "EXC_SIGN[7]", total |-> 256, dist |-> <<58, 256>>],
      [name |-> "EXC_SIGN[8]", total |-> 256, dist |-> <<245, 256>>],
      [name |-> "EXC_SIGN[9]", total |-> 256, dist |-> <<238, 256>>],
      [name |-> "EXC_SIGN[10]", total |-> 256, dist |-> <<232, 256>>],
      [name |-> "EXC_SIGN[11]", total |-> 256, dist |-> <<225, 256>>],
      [name |-> "EXC_SIGN[12]", total |-> 256, dist |-> <<220, 256>>],
      [name |-> "EXC_SIGN[13]", total |-> 256, dist |-> <<211, 256>>],
      [name |-> "EXC_SIGN[14]", total |-> 256, dist |-> <<1, 256>>],
      [name |-> "EXC_SIGN[15]", total |-> 256, dist |-> <<210, 256>>],
      [name |-> "EXC_SIGN[16]", total |-> 256, dist |-> <<190, 256>>],
      [name |-> "EXC_SIGN[17]", total |-> 256, dist |-> <<178, 256>>],
      [name |-> "EXC_SIGN[18]", total |-> 256, dist |-> <<169, 256>>],
      [name |-> "EXC_SIGN[19]", total |-> 256, dist |-> <<162, 256>>],
      [name |-> "EXC_SIGN[20]", total |-> 256, dist |-> <<152, 256>>],
      [name |-> "EXC_SIGN[21]", total |-> 256, dist |-> <<48, 256>>],
      [name |-> "EXC_SIGN[22]", total |-> 256, dist |-> <<242, 256>>],
      [name |-> "EXC_SIGN[23]", total |-> 256, dist |-> <<235, 256>>],
      [name |-> "EXC_SIGN[24]", total |-> 256, dist |-> <<224, 256>>],
      [name |-> "EXC_SIGN[25]", total |-> 256, dist |-> <<214, 256>>],
      [name |-> "EXC_SIGN[26]", total |-> 256, dist |-> <<205, 256>>],
      [name |-> "EXC_SIGN[27]", total |-> 256, dist |-> <<190, 256>>],
      [name |-> "EXC_SIGN[28]", total |-> 256, dist |-> <<1, 256>>],
      [name |-> "EXC_SIGN[29]", total |-> 256, dist |-> <<162, 256>>],
      [name |-> "EXC_SIGN[30]", total |-> 256, dist |-> <<152, 256>>],
      [name |-> "EXC_SIGN[31]", total |-> 256, dist |-> <<147, 256>>],
      [name |-> "EXC_SIGN[32]", total |-> 256, dist |-> <<144, 256>>],
      [name |-> "EXC_SIGN[33]", total |-> 256, dist |-> <<141, 256>>],
      [name |-> "EXC_SIGN[34]", total |-> 256, dist |-> <<138, 256>>],
      [name |-> "EXC_SIGN[35]", total |-> 256, dist |-> <<8, 256>>],
      [name |-> "EXC_SIGN[36]", total |-> 256, dist |-> <<203, 256>>],
      [name |-> "EXC_SIGN[37]", total |-> 256, dist |-> <<187, 256>>],
      [name |-> "EXC_SIGN[38]", total |-> 256, dist |-> <<176, 256>>],
      [name |-> "EXC_SIGN[39]", total |-> 256, dist |-> <<168, 256>>],
      [name |-> "EXC_SIGN[40]", total |-> 256, dist |-> <<161, 256>>],
      [name |-> "EXC_SIGN[41]", total |-> 256, dist |-> <<154, 256>>]>>
\* PULSE_COUNT with two entries of its last context out of order
PULSE_COUNT_unsorted ==
    <<[name |-> "PULSE_COUNT[0]", total |-> 256, dist |-> <<131, 205, 230, 238, 241, 244, 245,
               246, 247, 248, 249, 250, 251, 252, 253, 254, 255, 256>>],
      [name |-> "PULSE_COUNT[1]", total |-> 256, dist |-> <<58, 151, 211, 234, 241, 244, 245,
               246, 247, 248, 249, 250, 251, 252, 253, 254, 255, 256>>],
      [name |-> "PULSE_COUNT[2]", total |-> 256, dist |-> <<43, 94, 140, 173, 197, 213, 224,
               232, 238, 241, 244, 247, 249, 250, 251, 253, 254, 256>>],
      [name |-> "PULSE_COUNT[3]", total |-> 256, dist |-> <<17, 69, 140, 197, 228, 240, 245,
               246, 247, 248, 249, 250, 251, 252, 253, 254, 255, 256>>],
      [name |-> "PULSE_COUNT[4]", total |-> 256, dist |-> <<6, 27, 68, 121, 170, 205, 226,
               237, 243, 246, 248, 250, 251, 252, 253, 254, 255, 256>>],
      [name |-> "PULSE_COUNT[5]", total |-> 256, dist |-> <<7, 21, 43, 71, 100, 128, 153, 173,
               190, 203, 214, 223, 230, 235, 239, 243, 246, 256>>],
      [name |-> "PULSE_COUNT[6]", total |-> 256, dist |-> <<2, 7, 21, 50, 92, 138, 179, 210,
               229, 240, 246, 249, 251, 252, 253, 254, 255, 256>>],
      [name |-> "PULSE_COUNT[7]", total |-> 256, dist |-> <<1, 3, 7, 17, 36, 65, 100, 137,
               171, 199, 219, 233, 241, 246, 250, 252, 254, 256>>],
      [name |-> "PULSE_COUNT[8]", total |-> 256, dist |-> <<1, 3, 5, 10, 19, 33, 53, 77, 104,
               132, 158, 181, 201, 216, 227, 235, 241, 256>>],
      [name |-> "PULSE_COUNT[9]", total |-> 256, dist |-> <<1, 2, 3, 9, 36, 94, 150, 189, 214,
               228, 238, 244, 247, 250, 252, 253, 254, 256>>],
      [name |-> "PULSE_COUNT[10]", total |-> 256, dist |-> <<2, 3, 9, 36, 94, 150, 189, 214,
               228, 238, 244, 247, 250, 252, 253, 256, 254, 256>>]>>
\* PULSE_COUNT: the contexts of the rate levels 0 to 8 and of the two extensions
PULSE_COUNT ==
    <<[name |-> "PULSE_COUNT[0]", total |-> 256, dist |-> <<131, 205, 230, 238, 241, 244, 245,
               246, 247, 248, 249, 250, 251, 252, 253, 254, 255, 256>>],
      [name |-> "PULSE_COUNT[1]", total |-> 256, dist |-> <<58, 151, 211, 234, 241, 244, 245,
               246, 247, 248, 249, 250, 251, 252, 253, 254, 255, 256>>],
      [name |-> "PULSE_COUNT[2]", total |-> 256, dist |-> <<43, 94, 140, 173, 197, 213, 224,
               232, 238, 241, 244, 247, 249, 250, 251, 253, 254, 256>>],
      [name |-> "PULSE_COUNT[3]", total |-> 256, dist |-> <<17, 69, 140, 197, 228, 240, 245,
               246, 247, 248, 249, 250, 251, 252, 253, 254, 255, 256>>],
      [name |-> "PULSE_COUNT[4]", total |-> 256, dist |-> <<6, 27, 68, 121, 170, 205, 226,
               237, 243, 246, 248, 250, 251, 252, 253, 254, 255, 256>>],
      [name |-> "PULSE_COUNT[5]", total |-> 256, dist |-> <<7, 21, 43, 71, 100, 128, 153, 173,
               190, 203, 214, 223, 230, 235, 239, 243, 246, 256>>],
      [name |-> "PULSE_COUNT[6]", total |-> 256, dist |-> <<2, 7, 21, 50, 92, 138, 179, 210,
               229, 240, 246, 249, 251, 252, 253, 254, 255, 256>>],
      [name |-> "PULSE_COUNT[7]", total |-> 256, dist |-> <<1, 3, 7, 17, 36, 65, 100, 137,
               171, 199, 219, 233, 241, 246, 250, 252, 254, 256>>],
      [name |-> "PULSE_COUNT[8]", total |-> 256, dist |-> <<1, 3, 5, 10, 19, 33, 53, 77, 104,
               132, 158, 181, 201, 216, 227, 235, 241, 256>>],
      [name |-> "PULSE_COUNT[9]", total |-> 256, dist |-> <<1, 2, 3, 9, 36, 94, 150, 189, 214,
               228, 238, 244, 247, 250, 252, 253, 254, 256>>],
      [name |-> "PULSE_COUNT[10]", total |-> 256, dist |-> <<2, 3, 9, 36, 94, 150, 189, 214,
               228, 238, 244, 247, 250, 252, 253, 254, 256, 256>>]>>
\* the ICDF contexts of celt/decoder.rs
CELT_ICDFS ==
    <<[name |-> "TAPSET", total |-> 4, dist |-> <<2, 3, 4>>],
      [name |-> "MODEL_ENERGY_SMALL", total |-> 4, dist |-> <<2, 3, 4>>],
      [name |-> "MODEL_SPREAD", total |-> 32, dist |-> <<7, 9, 30, 32>>],
      [name |-> "ALLOC_TRIM", total |-> 128, dist |-> <<2, 4, 9, 19, 41, 87, 109, 119, 124,
               126, 128>>]>>

DecoderIcdfs == SILK_ICDFS \o PULSE_COUNT \o CELT_ICDFS

MaxIcdfCalls == 1

InitIcdf ==
    /\ \E buf \in FramesUpTo(MaxLen) :
          /\ rd = RangeDecoder_new(buf)
          /\ last = Call("new", <<>>, RangeDecoder_init(buf), RangeDecoder_init(buf), 0)
    /\ ops = <<>>
    /\ panicked = FALSE
    /\ pc = "icdf" /\ pkt = NoPacket /\ fi = 0
    /\ silk = Silk_new /\ celt = Celt_new
    /\ result = "none" /\ log = <<>> /\ npkts = 0
    /\ dec = Dec_new
    /\ smp = NoSilk
    /\ fx = NoFx

\* rd.decode_icdf(context), for any context of the decoders
DecodeIcdfContext ==
    /\ pc = "icdf" /\ ~panicked /\ Len(ops) < MaxIcdfCalls
    /\ \E c \in 1..Len(DecoderIcdfs) :
          Decoded("decode_icdf", <<c>>, decode_icdf(rd, DecoderIcdfs[c]))

SpecIcdf == InitIcdf /\ [][DecodeIcdfContext]_vars

(***************************************************************************)
(* The PVQ codeword decoder of CELT: cwrsi and extract_collapse_mask, each *)
(* applied to an input drawn at the start.                                 *)
(***************************************************************************)
MaxDim == 4
MaxPulses == 4
MaskLen == 4
MaxBlocks == 4

\* PVQ_U as far as it is read here: the entries K = N .. 23 of the rows
\* N = 0 .. 8
PVQ_U_HEAD ==
    <<<<1, 0, 0, 0, 0, 0, 0, 0, 0, 0, 0, 0, 0, 0, 0, 0, 0, 0, 0, 0, 0, 0, 0, 0>>,
      <<1, 1, 1, 1, 1, 1, 1, 1, 1, 1, 1, 1, 1, 1, 1, 1, 1, 1, 1, 1, 1, 1, 1>>,
      <<3, 5, 7, 9, 11, 13, 15, 17, 19, 21, 23, 25, 27, 29, 31, 33, 35, 37, 39, 41, 43,
        45>>,
      <<13, 25, 41, 61, 85, 113, 145, 181, 221, 265, 313, 365, 421, 481, 545, 613, 685,
        761, 841, 925, 1013>>,
      <<63, 129, 231, 377, 575, 833, 1159, 1561, 2047, 2625, 3303, 4089, 4991, 6017, 7175,
        8473, 9919, 11521, 13287, 15225>>,
      <<321, 681, 1289, 2241, 3649, 5641, 8361, 11969, 16641, 22569, 29961, 39041, 50049,
        63241, 78889, 97281, 118721, 143529, 172041>>,
      <<1683, 3653, 7183, 13073, 22363, 36365, 56695, 85305, 124515, 177045, 246047,
        335137, 448427, 590557, 766727, 982729, 1244979, 1560549>>,
      <<8989, 19825, 40081, 75517, 134245, 227305, 369305, 579125, 880685, 1303777,
        1884961, 2668525, 3707509, 5064793, 6814249, 9041957, 11847485>>,
      <<48639, 108545, 224143, 433905, 795455, 1392065, 2340495, 3800305, 5984767,
        9173505, 13726991, 20103025, 28875327, 40754369, 56610575, 77500017>>>>

\* pvq_u_row(n)[k], for k >= n
pvq_u_row(n, k) == PVQ_U_HEAD[n + 1][k - n + 1]
pvq_u(n, k) == pvq_u_row(Min(n, k), Max(n, k))
pvq_v(n, k) == pvq_u(n, k) + pvq_u(n, k + 1)

\* a ^ b on naturals
RECURSIVE XorNat(_, _)
XorNat(a, b) ==
    IF a = 0 THEN b ELSE IF b = 0 THEN a
    ELSE 2 * XorNat(a \div 2, b \div 2) + (IF a % 2 = b % 2 THEN 0 ELSE 1)
\* a ^ b on i32, -x - 1 being !x
Xor(a, b) ==
    IF a >= 0 /\ b >= 0 THEN XorNat(a, b)
    ELSE IF a < 0 /\ b < 0 THEN XorNat(-a - 1, -b - 1)
    ELSE IF a < 0 THEN -XorNat(-a - 1, b) - 1
    ELSE -XorNat(a, -b - 1) - 1

\* the inner update of cwrsi: k0 - k is a u32 subtraction, which panics in a
\* debug build and wraps in a release build (d as i32 is then k0 - k again);
\* with k at most 128 the u32 norm does not wrap
cwrsi_update(c, k0, k, s) ==
    IF k0 < k /\ c.build = "debug" THEN [c EXCEPT !.panic = TRUE]
    ELSE LET val == Xor((k0 - k) + s, s)
         IN  [c EXCEPT !.k = k, !.y = Append(@, val), !.norm = @ + val * val]

\* loop { k -= 1; p = pvq_u_row(k)[n]; if i >= p { break } }: <<k, p>>, or
\* <<>> when k goes below 0 (a panic in a debug build, and in a release
\* build too, where PVQ_U_ROW is then indexed out of bounds)
RECURSIVE rows_down(_, _, _)
rows_down(k, n, i) ==
    IF k = 0 THEN <<>>
    ELSE IF i >= pvq_u_row(k - 1, n) THEN <<k - 1, pvq_u_row(k - 1, n)>>
    ELSE rows_down(k - 1, n, i)

\* loop { p = row[k]; if i >= p { break }; k -= 1 }, row being pvq_u_row(n)
RECURSIVE row_down(_, _, _)
row_down(n, k, i) ==
    IF i >= pvq_u_row(n, k) THEN <<k, pvq_u_row(n, k)>>
    ELSE IF k = 0 THEN <<>>
    ELSE row_down(n, k - 1, i)

\* one pass of while n > 2
cwrsi_pass(c) ==
    LET n == c.n
        k == c.k
        i == c.i
    IN  IF k >= n
        THEN LET p == pvq_u_row(n, k + 1)
                 s == IF i >= p THEN -1 ELSE 0
                 i1 == IF i >= p THEN i - p ELSE i
                 q == pvq_u_row(n, n)
                 kp == IF q > i1 THEN rows_down(n, n, i1) ELSE row_down(n, k, i1)
             IN  IF kp = <<>> \/ i1 < kp[2] THEN [c EXCEPT !.panic = TRUE]
                 ELSE cwrsi_update([c EXCEPT !.i = i1 - kp[2], !.n = n - 1], k, kp[1], s)
        ELSE LET p == pvq_u_row(k, n)
                 q == pvq_u_row(k + 1, n)
             IN  IF i > p /\ i < q
                 THEN [c EXCEPT !.i = i - p, !.y = Append(@, 0), !.n = n - 1]
                 ELSE LET s == IF i >= p THEN -1 ELSE 0
                          i1 == IF i >= p THEN i - p ELSE i
                          kp == rows_down(k, n, i1)
                      IN  IF kp = <<>> \/ i1 < kp[2] THEN [c EXCEPT !.panic = TRUE]
                          ELSE cwrsi_update([c EXCEPT !.i = i1 - kp[2], !.n = n - 1],
                                            k, kp[1], s)

RECURSIVE cwrsi_while(_)
cwrsi_while(c) == IF c.panic \/ c.n <= 2 THEN c ELSE cwrsi_while(cwrsi_pass(c))

\* the block of n == 2
cwrsi_two(c) ==
    LET p == 2 * c.k + 1
        s == IF c.i >= p THEN -1 ELSE 0
        i1 == IF c.i >= p THEN c.i - p ELSE c.i
        k == (i1 + 1) \div 2
        i2 == IF k # 0 THEN i1 - (2 * k - 1) ELSE i1
    IN  cwrsi_update([c EXCEPT !.i = i2, !.n = 1], c.k, k, s)

\* the block of n == 1
cwrsi_one(c) == cwrsi_update([c EXCEPT !.n = 0], c.k, 0, -c.i)

\* cwrsi(n, k, i, y): y, the norm returned, or a panic
cwrsi(n, k, i, build) ==
    LET c0 == [n |-> n, k |-> k, i |-> i, y |-> <<>>, norm |-> 0, panic |-> FALSE,
               build |-> build]
        c1 == cwrsi_while(c0)
        c2 == IF c1.panic THEN c1 ELSE cwrsi_two(c1)
    IN  IF c2.panic THEN c2 ELSE cwrsi_one(c2)

\* extract_collapse_mask(y, b)
extract_collapse_mask(y, b) ==
    IF b <= 1 THEN 1
    ELSE LET chunks == Len(y) \div b
             bit(i) == IF \E c \in 0..(chunks - 1) : y[c * b + i + 1] # 0 THEN 2 ^ i ELSE 0
             RECURSIVE sum(_)
             sum(i) == IF i < 0 THEN 0 ELSE bit(i) + sum(i - 1)
         IN  sum(b - 1)

\* the vectors of length n over the values vs
RECURSIVE Vectors(_, _)
Vectors(n, vs) ==
    IF n = 0 THEN {<<>>} ELSE {Append(v, x) : v \in Vectors(n - 1, vs), x \in vs}

\* the indices of every codeword of n <= MaxDim dimensions and k <= MaxPulses
\* pulses, and the two of the source's test
CwrsiInputs ==
    {a \in (2..MaxDim) \X (1..MaxPulses) \X (0..(pvq_v(MaxDim, MaxPulses) - 1)) :
        a[3] < pvq_v(a[1], a[2])}
    \cup {<<8, 22, 68441748>>, <<8, 22, 66182001>>}
\* the pulse vectors of MaskLen places, and the two of the source's test
MaskInputs ==
    (Vectors(MaskLen, {0, 1, -2}) \X (0..MaxBlocks))
    \cup {<<<<0, 0, 1, -1, 4, 8, -4, 4>>, 8>>,
          <<<<1, -2, 0, -2, 0, 2, 0, 0, 0, 1, 1, 0, 1, 1, -1, 0>>, 4>>}

InitPvq ==
    /\ rd = NoDecoder /\ last = NoCall /\ ops = <<>> /\ panicked = FALSE
    /\ pc = "pvq" /\ pkt = NoPacket /\ fi = 0
    /\ silk = Silk_new /\ celt = Celt_new
    /\ result = "none" /\ log = <<>> /\ npkts = 0
    /\ dec = Dec_new
    /\ smp = NoSilk
    /\ \/ \E a \in CwrsiInputs, build \in {"debug", "release"} :
             fx = [fn |-> "cwrsi", arg |-> a, build |-> build, done |-> FALSE, out |-> <<>>]
       \/ \E a \in MaskInputs :
             fx = [fn |-> "extract_collapse_mask", arg |-> a, build |-> "any",
                   done |-> FALSE, out |-> <<>>]

FxOnly ==
    UNCHANGED <<rd, last, ops, panicked, pc, pkt, fi, silk, celt, result, log, npkts, dec, smp>>

Cwrsi ==
    /\ pc = "pvq" /\ fx.fn = "cwrsi" /\ ~fx.done
    /\ fx' = [fx EXCEPT !.done = TRUE,
                        !.out = cwrsi(fx.arg[1], fx.arg[2], fx.arg[3], fx.build)]
    /\ FxOnly

ExtractCollapseMask ==
    /\ pc = "pvq" /\ fx.fn = "extract_collapse_mask" /\ ~fx.done
    /\ fx' = [fx EXCEPT !.done = TRUE, !.out = extract_collapse_mask(fx.arg[1], fx.arg[2])]
    /\ FxOnly

NextPvq == Cwrsi \/ ExtractCollapseMask

SpecPvq == InitPvq /\ [][NextPvq]_vars

(***************************************************************************)
(* Silk fixed point: ExMath, the cosine table, the stability test, the     *)
(* range limiter and the LSF to LPC conversion.  A product of two i32      *)
(* values is an i64 in the source; here it is a sequence of 15-bit limbs,  *)
(* least significant first, with the sign kept apart.                      *)
(***************************************************************************)
B15 == 32768

Abs(x) == IF x < 0 THEN -x ELSE x

\* the three limbs of n, 0 <= n < 2^31
Limbs3(n) == <<n % B15, (n \div B15) % B15, n \div (B15 * B15)>>

\* the column sums of the product of two limb triples
Columns(x, y) ==
    << x[1] * y[1],
       x[1] * y[2] + x[2] * y[1],
       x[1] * y[3] + x[2] * y[2] + x[3] * y[1],
       x[2] * y[3] + x[3] * y[2],
       x[3] * y[3] >>

\* the limbs of 2^k and of 2^k - 1, five limbs, 0 <= k <= 32
Pow2Limbs(k) == [i \in 1..5 |-> IF i - 1 = k \div 15 THEN 2 ^ (k % 15) ELSE 0]

OnesLimbs(k) ==
    [i \in 1..5 |-> IF i - 1 < k \div 15 THEN B15 - 1
                    ELSE IF i - 1 = k \div 15 THEN 2 ^ (k % 15) - 1
                    ELSE 0]

NoLimbs == [i \in 1..5 |-> 0]

\* |a| * |b| + c as six limbs, c given as five limbs: the columns with
\* their carries propagated
MulAdd(a, b, c) ==
    LET x == Limbs3(Abs(a))
        y == Limbs3(Abs(b))
        col(i) == Columns(x, y)[i] + c[i]
        carry[i \in 0..5] == IF i = 0 THEN 0 ELSE (col(i) + carry[i - 1]) \div B15
    IN  [i \in 1..6 |-> IF i = 6 THEN carry[5] ELSE (col(i) + carry[i - 1]) % B15]

\* bits from .. from + 15 of the limb sequence m
Field16(m, from) ==
    LET part(i) ==
            LET lo == 15 * (i - 1)
            IN  IF lo >= from
                THEN (IF lo - from >= 16 THEN 0 ELSE (m[i] * 2 ^ (lo - from)) % 65536)
                ELSE (IF from - lo >= 15 THEN 0 ELSE (m[i] \div 2 ^ (from - lo)) % 65536)
    IN  part(1) + part(2) + part(3) + part(4) + part(5) + part(6)

\* `as i32` of the 32 bits hi:lo
AsI32(hi, lo) == IF hi >= 32768 THEN (hi - 65536) * 65536 + lo ELSE hi * 65536 + lo

\* `as i32` of (m >> bits), and of -(m >> bits)
ShrI32(m, bits) == AsI32(Field16(m, bits + 16), Field16(m, bits))

NegShrI32(m, bits) ==
    LET hi == Field16(m, bits + 16)
        lo == Field16(m, bits)
    IN  IF hi = 32768 /\ lo = 0 THEN AsI32(hi, lo) ELSE -AsI32(hi, lo)

Negative(a, b) == (a < 0 /\ b > 0) \/ (a > 0 /\ b < 0)

\* ((a * b) >> bits) as i32, the shift an arithmetic shift of an i64
mul_shift(a, b, bits) ==
    IF Negative(a, b)
    THEN NegShrI32(MulAdd(a, b, OnesLimbs(bits)), bits)
    ELSE ShrI32(MulAdd(a, b, NoLimbs), bits)

\* the product without the rounding term
mul_round_truncating(a, b, bits) == mul_shift(a, b, bits)
\* (((a * b) + (1 << (bits - 1))) >> bits) as i32
mul_round(a, b, bits) ==
    IF Negative(a, b)
    THEN NegShrI32(MulAdd(a, b, OnesLimbs(bits - 1)), bits)
    ELSE ShrI32(MulAdd(a, b, Pow2Limbs(bits - 1)), bits)

LSF_ORDERING_NB_MB == <<0, 9, 6, 3, 4, 5, 8, 1, 2, 7>>

LSF_ORDERING_WB == <<0, 15, 8, 7, 4, 11, 12, 3, 2, 13, 10, 5, 6, 9, 14, 1>>

COSINE ==
    << 4096, 4095, 4091, 4085, 4076, 4065, 4052, 4036, 4017, 3997, 3973, 3948,
       3920, 3889, 3857, 3822, 3784, 3745, 3703, 3659, 3613, 3564, 3513, 3461,
       3406, 3349, 3290, 3229, 3166, 3102, 3035, 2967, 2896, 2824, 2751, 2676,
       2599, 2520, 2440, 2359, 2276, 2191, 2106, 2019, 1931, 1842, 1751, 1660,
       1568, 1474, 1380, 1285, 1189, 1093, 995, 897, 799, 700, 601, 501,
       401, 301, 201, 101, 0, -101, -201, -301, -401, -501, -601, -700,
       -799, -897, -995, -1093, -1189, -1285, -1380, -1474, -1568, -1660, -1751, -1842,
       -1931, -2019, -2106, -2191, -2276, -2359, -2440, -2520, -2599, -2676, -2751, -2824,
       -2896, -2967, -3035, -3102, -3166, -3229, -3290, -3349, -3406, -3461, -3513, -3564,
       -3613, -3659, -3703, -3745, -3784, -3822, -3857, -3889, -3920, -3948, -3973, -3997,
       -4017, -4036, -4052, -4065, -4076, -4085, -4091, -4095, -4096 >>

NB_MB_ORDER == 10

WB_ORDER == 16

ORDERING(order) == IF order = WB_ORDER THEN LSF_ORDERING_WB ELSE LSF_ORDERING_NB_MB

\* a vector computed element by element, as the array the source fills
Vec(f) == f \o <<>>

AsI16(x) == ((x + 32768) % 65536) - 32768

\* is_stable: "stable", "unstable", or "panic" where a shift amount is negative
\* (div below 2^14: `div >> (b2 + 1)` overflows the shift in a debug build)
RECURSIVE stable_loop(_)
\* s = [c, k, a, invgain]: c the coefficients of the current order (prev in
\* the source), k from ORDER - 1 down to 0
stable_loop(s) ==
    IF Abs(s.a) > 16773022 THEN "unstable"
    ELSE Let([rc      |-> -s.a * 128,
              div     |-> (2 ^ 30) - mul_shift(-s.a * 128, -s.a * 128, 32)],
             LAMBDA d :
               LET invgain == mul_shift(s.invgain, d.div, 32) * 4
                   b1      == ilogN(d.div)
                   b2      == b1 - 16
                   inv     == ((2 ^ 29) - 1) \div (d.div \div 2 ^ (b2 + 1))
                   err     == (2 ^ 29) - mul_shift(d.div * 2 ^ (15 - b2), inv, 16)
                   gain    == inv * 65536 + Asr(err * inv, 13)
                   cur(j)  == Let(s.c[j] - mul_shift(s.c[s.k - j + 1], d.rc, 31),
                                  LAMBDA v : mul_shift(v, gain, b1))
               IN  IF s.k = 0
                   THEN (IF invgain >= 107374 THEN "stable" ELSE "unstable")
                   ELSE IF b2 + 1 < 0 THEN "panic"
                   ELSE Let([c       |-> Vec([j \in 1..s.k |-> cur(j)]),
                             k       |-> s.k - 1,
                             a       |-> cur(s.k),
                             invgain |-> invgain],
                            LAMBDA t : stable_loop(t)))

SumSeq(s) ==
    LET sum[i \in 0..Len(s)] == IF i = 0 THEN 0 ELSE sum[i - 1] + s[i]
    IN  sum[Len(s)]

is_stable(lpcs) ==
    IF SumSeq(lpcs) > 4096 THEN "unstable"
    ELSE Let([c |-> Vec([j \in 1..Len(lpcs) |-> lpcs[j] * 4096]),
              k |-> Len(lpcs) - 1,
              a |-> lpcs[Len(lpcs)] * 4096,
              invgain |-> 2 ^ 30],
             LAMBDA s : stable_loop(s))

\* the first index (from 1) of the largest magnitude of a
first_max(a) ==
    CHOOSE k \in 1..Len(a) :
        /\ \A j \in 1..Len(a) : Abs(a[j]) <= Abs(a[k])
        /\ \A j \in 1..(k - 1) : Abs(a[j]) < Abs(a[k])

RECURSIVE shl_div(_)
\* s = [q, r, n, den]: the quotient of (q * den + r) << n by den, r < den
shl_div(s) ==
    IF s.n = 0 THEN s.q
    ELSE Let([q   |-> 2 * s.q + (IF 2 * s.r >= s.den THEN 1 ELSE 0),
              r   |-> IF 2 * s.r >= s.den THEN 2 * s.r - s.den ELSE 2 * s.r,
              n   |-> s.n - 1,
              den |-> s.den],
             LAMBDA t : shl_div(t))

\* 65470 - ((max - 32767) << 14) / ((max * (k + 1)) >> 2) on u32, k from 0;
\* the left shift drops the bits above the 32nd
chirp_start(maxabs, k) ==
    LET max == Max(maxabs, 163838)
        m   == (max - 32767) % (2 ^ 18)
        den == (max * (k + 1)) \div 4
    IN  65470 - Let([q |-> m \div den, r |-> m % den, n |-> 14, den |-> den],
                    LAMBDA s : shl_div(s))

RECURSIVE chirp_loop(_)
\* s = [a, j, start, chirp]: scale a[j..] by the decaying chirp
chirp_loop(s) ==
    IF s.j > Len(s.a) THEN s.a
    ELSE Let([a     |-> Vec([s.a EXCEPT ![s.j] = mul_round(s.a[s.j], s.chirp, 16)]),
              j     |-> s.j + 1,
              start |-> s.start,
              chirp |-> mul_round(s.start, s.chirp, 16)],
             LAMBDA t : chirp_loop(t))

bwexpand(a, start) ==
    Let(start, LAMBDA st : chirp_loop([a |-> a, j |-> 1, start |-> st, chirp |-> st]))

maxabs_q12(a) == Asr(Abs(a[first_max(a)]) + 16, 5)

RECURSIVE limit_loop(_)
\* s = [a, round, deadline]: the ten rounds of the first loop of range_limit
limit_loop(s) ==
    IF s.round = 10 THEN s
    ELSE IF maxabs_q12(s.a) > 32767
         THEN Let([a        |-> bwexpand(s.a, chirp_start(maxabs_q12(s.a), first_max(s.a) - 1)),
                   round    |-> s.round + 1,
                   deadline |-> TRUE],
                  LAMBDA t : limit_loop(t))
         ELSE [s EXCEPT !.deadline = FALSE]

to_q12(a) == Vec([j \in 1..Len(a) |-> AsI16(Asr(a[j] + 16, 5))])

saturated(a) == Vec([j \in 1..Len(a) |-> Max(-32768, Min(32767, Asr(a[j] + 16, 5)))])

RECURSIVE stabilise(_)
\* s = [a, lpc, i]: up to sixteen rounds of bandwidth expansion until the
\* filter is stable; a panic of is_stable ends the conversion
stabilise(s) ==
    IF s.i > 16 THEN [panic |-> FALSE, lpc |-> s.lpc]
    ELSE Let(is_stable(s.lpc),
             LAMBDA st :
               IF st = "panic" THEN [panic |-> TRUE, lpc |-> s.lpc]
               ELSE IF st = "stable" THEN [panic |-> FALSE, lpc |-> s.lpc]
               ELSE Let([a   |-> bwexpand(s.a, 65536 - 2 ^ s.i),
                         lpc |-> to_q12(bwexpand(s.a, 65536 - 2 ^ s.i)),
                         i   |-> s.i + 1],
                        LAMBDA t : stabilise(t)))

\* range_limit: the Q12 coefficients lpcs[i] * 4096
range_limit(a) ==
    Let(Let([a |-> a, round |-> 0, deadline |-> TRUE], LAMBDA s : limit_loop(s)),
        LAMBDA lim :
          Let(IF lim.deadline
              THEN [a |-> Vec([j \in 1..Len(a) |-> saturated(lim.a)[j] * 32]),
                    lpc |-> saturated(lim.a), i |-> 1]
              ELSE [a |-> lim.a, lpc |-> to_q12(lim.a), i |-> 1],
              LAMBDA s : stabilise(s)))

\* the interpolated cosines, in the order ORDERING puts them
lsps_of(nlsfs, order) ==
    Vec([j \in 1..order |->
           LET pos  == CHOOSE t \in 1..order : ORDERING(order)[t] = j - 1
               idx  == nlsfs[pos] \div 256
               off  == nlsfs[pos] % 256
               cos  == COSINE[idx + 1]
               next == COSINE[idx + 2]
           IN  Asr(cos * 256 + (next - cos) * off + 4, 3)])

\* one round of the recursion on p (or q) with the cosine lsp, i from 0
poly_round(p, lsp, i) ==
    Vec([j \in 1..Len(p) |->
           IF j = 2 THEN p[2] - lsp
           ELSE IF j = i + 3 THEN p[i + 1] * 2 - mul_round(lsp, p[i + 2], 16)
           ELSE IF j >= 3 /\ j <= i + 2 THEN p[j] + p[j - 2] - mul_round(lsp, p[j - 1], 16)
           ELSE p[j]])

RECURSIVE poly(_)
\* s = [p, lsps, off, i, last]: rounds i..last, round i with lsps[off + 2 * i]
poly(s) ==
    IF s.i > s.last THEN s.p
    ELSE Let([p    |-> poly_round(s.p, s.lsps[s.off + 2 * s.i], s.i),
              lsps |-> s.lsps, off |-> s.off, i |-> s.i + 1, last |-> s.last],
             LAMBDA t : poly(t))

poly_of(lsps, off) ==
    Let([p    |-> Vec([j \in 1..(Len(lsps) \div 2 + 1) |->
                         IF j = 1 THEN 65536 ELSE IF j = 2 THEN -lsps[off - 2] ELSE 0]),
         lsps |-> lsps, off |-> off, i |-> 0, last |-> Len(lsps) \div 2 - 2],
        LAMBDA s : poly(s))

\* the 32-bit filter coefficients before range limiting
lpc32(p, q) ==
    LET order == 2 * (Len(p) - 1)
        half  == Len(p) - 1
    IN  Vec([t \in 1..order |->
               IF t <= half
               THEN -(p[t] + p[t + 1]) - (q[t + 1] - q[t])
               ELSE -(p[order + 1 - t] + p[order + 2 - t])
                    + (q[order + 2 - t] - q[order + 1 - t])])

\* lsf_to_lpc: [panic, lpc], lpc the coefficients times 4096
lsf_to_lpc(nlsfs, order) ==
    Let(lsps_of(nlsfs, order),
        LAMBDA lsps :
          Let(<<poly_of(lsps, 3), poly_of(lsps, 4)>>,
              LAMBDA pq :
                Let(lpc32(pq[1], pq[2]), LAMBDA a : range_limit(a))))

\* the NLSF vector of the source's test, and the bounds of the vectors around it
TestVector == <<321, 2471, 5904, 9856, 12928, 16000, 19328, 22400, 25728, 28800>>

MaxShift == 4

MaxTilt == 3

MaxSpread == 2

\* NLSF vectors are non-negative i16 values in increasing order
IsNlsf(v) ==
    /\ \A i \in 1..Len(v) : v[i] \in 0..32767
    /\ \A i \in 1..(Len(v) - 1) : v[i] <= v[i + 1]

\* the test vector shifted and tilted (NB/MB), evenly spaced vectors (WB), and
\* closely clustered vectors, whose filters the range limiter has to tame
LsfInputs ==
    LET shifted   == {<<Vec([i \in 1..NB_MB_ORDER |-> TestVector[i] + a * 64 + i * b * 16]),
                        NB_MB_ORDER>> :
                          a \in (-MaxShift)..MaxShift, b \in (-MaxTilt)..MaxTilt}
        spaced    == {<<Vec([i \in 1..WB_ORDER |-> 1900 * i + a * 32]), WB_ORDER>> :
                          a \in (-MaxShift)..MaxShift}
        clustered == {<<Vec([i \in 1..order |-> base + i * d]), order>> :
                          base \in {6000, 20000, 31500}, d \in 1..MaxSpread,
                          order \in {NB_MB_ORDER, WB_ORDER}}
    IN  {a \in shifted \cup spaced \cup clustered : IsNlsf(a[1])}

InitLsf ==
    /\ rd = NoDecoder /\ last = NoCall /\ ops = <<>> /\ panicked = FALSE
    /\ pc = "lsf" /\ pkt = NoPacket /\ fi = 0
    /\ silk = Silk_new /\ celt = Celt_new
    /\ result = "none" /\ log = <<>> /\ npkts = 0
    /\ dec = Dec_new
    /\ smp = NoSilk
    /\ \E a \in LsfInputs :
          fx = [fn |-> "lsf_to_lpc", arg |-> a[1], order |-> a[2], done |-> FALSE,
                out |-> [panic |-> FALSE, lpc |-> <<>>]]

LsfToLpc ==
    /\ pc = "lsf" /\ fx.fn = "lsf_to_lpc" /\ ~fx.done
    /\ \E out \in {lsf_to_lpc(fx.arg, fx.order)} :
          fx' = [fx EXCEPT !.done = TRUE, !.out = out]
    /\ FxOnly

NextLsf == LsfToLpc

SpecLsf == InitLsf /\ [][NextLsf]_vars

(***************************************************************************)
(* CELT bit allocation: tell_frac, available_frac and decode_allocation.   *)
(* A usize that may have wrapped below zero is kept as its residue of      *)
(* smallest magnitude modulo 2^64 (2^64 - 3 is -3): `as i32` of a residue  *)
(* is the residue, and the unsigned order is ULt.                          *)
(***************************************************************************)
ULt(a, b) == IF (a < 0) = (b < 0) THEN a < b ELSE b < 0

ULeq(a, b) == a = b \/ ULt(a, b)

SumOver(f, lo, hi) ==
    LET sum[i \in (lo - 1)..hi] == IF i < lo THEN 0 ELSE sum[i - 1] + f[i]
    IN  sum[hi]

\* a u64 as five 15-bit limbs, least significant first
Limbs5(n) == <<n % B15, (n \div B15) % B15, n \div (B15 * B15), 0, 0>>

\* the low 64 bits of x * x (wrapping_mul), each product split at 15 bits
\* before the columns are summed
Square64(x) ==
    LET lo(k) == SumOver([i \in 1..k |-> (x[i] * x[k + 1 - i]) % B15], 1, k)
        hi(k) == IF k = 0 THEN 0
                 ELSE SumOver([i \in 1..k |-> (x[i] * x[k + 1 - i]) \div B15], 1, k)
        carry[k \in 0..5] ==
            IF k = 0 THEN 0 ELSE (lo(k) + hi(k - 1) + carry[k - 1]) \div B15
    IN  Vec([k \in 1..5 |->
               IF k = 5 THEN (lo(k) + hi(k - 1) + carry[k - 1]) % 16
               ELSE (lo(k) + hi(k - 1) + carry[k - 1]) % B15])

\* whether x * x passes 2^64: x is 2^32 or more
SquareOverflows(x) == x[3] >= 4 \/ x[4] # 0 \/ x[5] # 0

\* bits from .. from + 14 of the five limbs m
Bits15(m, from) ==
    LET q == from \div 15
        r == from % 15
    IN  (IF q + 1 <= 5 THEN m[q + 1] \div 2 ^ r ELSE 0)
        + (IF q + 2 <= 5 THEN (m[q + 2] % 2 ^ r) * 2 ^ (15 - r) ELSE 0)

\* m >> bits on five limbs
ShrLimbs(m, bits) == Vec([i \in 1..5 |-> Bits15(m, bits + 15 * (i - 1))])

\* whether the limbs hold 2^27 or more, which the integers for lg do not follow
TooBig(m) == m[2] >= 4096 \/ m[3] # 0 \/ m[4] # 0 \/ m[5] # 0

\* one turn of tell_frac's loop on s = [lg, rq, panic, big], rq in limbs: in
\* a debug build a shift of 64 or more panics, in a release build the amount
\* is taken modulo 64 and the product wraps; big is set where lastbit passes
\* 2^27
tell_frac_turn(s, build) ==
    IF s.panic \/ s.big THEN s
    ELSE IF build = "debug" /\ (s.lg - 16 >= 64 \/ SquareOverflows(s.rq))
    THEN [s EXCEPT !.panic = TRUE]
    ELSE Let(ShrLimbs(Square64(s.rq), (s.lg - 16) % 64),
             LAMBDA rq :
               Let(ShrLimbs(rq, 16),
                   LAMBDA lastbit :
                     IF TooBig(lastbit) THEN [s EXCEPT !.big = TRUE]
                     ELSE [lg    |-> s.lg * 2 + lastbit[1] + lastbit[2] * B15,
                           rq    |-> IF lastbit # Limbs5(0) THEN ShrLimbs(rq, 1) ELSE rq,
                           panic |-> FALSE,
                           big   |-> FALSE]))

\* tell_frac: [panic, big, v], v = total * 8 - lg, a residue
tell_frac(d, build) ==
    Let([lg |-> ilog(d.range), rq |-> Limbs5(Shr(d.range, ilog(d.range) - 16)[2]),
         panic |-> ilog(d.range) < 16, big |-> FALSE],
        LAMBDA s0 :
          Let(tell_frac_turn(s0, build),
              LAMBDA s1 :
                Let(tell_frac_turn(s1, build),
                    LAMBDA s2 :
                      Let(tell_frac_turn(s2, build),
                          LAMBDA s3 :
                            [panic |-> s3.panic \/ (build = "debug" /\ d.total * 8 < s3.lg),
                             big   |-> s3.big,
                             v     |-> d.total * 8 - s3.lg]))))

\* available_frac: the eighth-bits left, size_in_bits * 8 - tell_frac()
available_frac(d, build) ==
    Let(tell_frac(d, build),
        LAMBDA t :
          [panic |-> t.panic \/ (build = "debug" /\ ULt(d.size_in_bits * 8, t.v)),
           big   |-> t.big,
           v     |-> d.size_in_bits * 8 - t.v])

MAX_BANDS == 21

MAX_FINE_BITS == 8

SPREAD_NORMAL == 2

STATIC_CAPS ==
    << << <<224, 224, 224, 224, 224, 224, 224, 224, 160, 160,
            160, 160, 185, 185, 185, 178, 178, 168, 134, 61, 37>>,
          <<224, 224, 224, 224, 224, 224, 224, 224, 240, 240,
            240, 240, 207, 207, 207, 198, 198, 183, 144, 66, 40>> >>,
       << <<160, 160, 160, 160, 160, 160, 160, 160, 185, 185,
            185, 185, 193, 193, 193, 183, 183, 172, 138, 64, 38>>,
          <<240, 240, 240, 240, 240, 240, 240, 240, 207, 207,
            207, 207, 204, 204, 204, 193, 193, 180, 143, 66, 40>> >>,
       << <<185, 185, 185, 185, 185, 185, 185, 185, 193, 193,
            193, 193, 193, 193, 193, 183, 183, 172, 138, 65, 39>>,
          <<207, 207, 207, 207, 207, 207, 207, 207, 204, 204,
            204, 204, 201, 201, 201, 188, 188, 176, 141, 66, 40>> >>,
       << <<193, 193, 193, 193, 193, 193, 193, 193, 193, 193,
            193, 193, 194, 194, 194, 184, 184, 173, 139, 65, 39>>,
          <<204, 204, 204, 204, 204, 204, 204, 204, 201, 201,
            201, 201, 198, 198, 198, 187, 187, 175, 140, 66, 40>> >> >>

FREQ_RANGE == <<1, 1, 1, 1, 1, 1, 1, 1, 2, 2, 2, 2, 4, 4, 4, 6, 6, 8, 12, 18, 22>>

MODEL_SPREAD == [total |-> 32, dist |-> <<7, 9, 30, 32>>]

ALLOC_TRIM == [total |-> 128, dist |-> <<2, 4, 9, 19, 41, 87, 109, 119, 124, 126, 128>>]

LOG2_FRAC ==
    <<0, 8, 13, 16, 19, 21, 23, 24, 26, 27, 28, 29, 30, 31, 32, 32, 33, 34, 34, 35, 36, 36,
      37, 37>>

STATIC_ALLOC ==
    << <<0, 0, 0, 0, 0, 0, 0, 0, 0, 0, 0, 0, 0, 0, 0, 0, 0, 0, 0, 0, 0>>,
       <<90, 80, 75, 69, 63, 56, 49, 40, 34, 29, 20, 18, 10, 0, 0, 0, 0, 0, 0, 0, 0>>,
       <<110, 100, 90, 84, 78, 71, 65, 58, 51, 45, 39, 32, 26, 20, 12, 0, 0, 0, 0, 0, 0>>,
       <<118, 110, 103, 93, 86, 80, 75, 70, 65, 59, 53, 47, 40, 31, 23, 15, 4, 0, 0, 0, 0>>,
       <<126, 119, 112, 104, 95, 89, 83, 78, 72, 66, 60, 54, 47, 39, 32, 25, 17, 12, 1, 0, 0>>,
       <<134, 127, 120, 114, 103, 97, 91, 85, 78, 72, 66, 60, 54, 47, 41, 35, 29, 23, 16, 10,
         1>>,
       <<144, 137, 130, 124, 113, 107, 101, 95, 88, 82, 76, 70, 64, 57, 51, 45, 39, 33, 26, 15,
         1>>,
       <<152, 145, 138, 132, 123, 117, 111, 105, 98, 92, 86, 80, 74, 67, 61, 55, 49, 43, 36, 20,
         1>>,
       <<162, 155, 148, 142, 133, 127, 121, 115, 108, 102, 96, 90, 84, 77, 71, 65, 59, 53, 46,
         30, 1>>,
       <<172, 165, 158, 152, 143, 137, 131, 125, 118, 112, 106, 100, 94, 87, 81, 75, 69, 63, 56,
         45, 20>>,
       <<200, 200, 200, 200, 200, 200, 200, 200, 198, 193, 188, 183, 178, 173, 168, 163, 158,
         153, 148, 129, 104>> >>

FREQ_BANDS ==
    <<0, 1, 2, 3, 4, 5, 6, 7, 8, 10, 12, 14, 16, 20, 24, 28, 34, 40, 48, 60, 78, 100>>

LOG_FREQ_RANGE ==
    <<0, 0, 0, 0, 0, 0, 0, 0, 8, 8, 8, 8, 16, 16, 16, 21, 21, 24, 29, 34, 36>>

CELT_VECTOR == 11

ALLOC_STEPS == 6

FINE_OFFSET == 21

MaxBoosts == 12

U8(x) == x % 256

\* the quotient of i32 division, which rounds towards zero
DivT(a, b) == IF (a < 0) = (b < 0) THEN Abs(a) \div Abs(b) ELSE -(Abs(a) \div Abs(b))

Bands(c) == (c.start)..(c.end - 1)

StereoBit(c) == IF c.stereo THEN 1 ELSE 0

\* caps[i] = (static_cap + 64) * freq_range << scale >> 2
caps_of(c) ==
    Vec([k \in 1..MAX_BANDS |->
           (((STATIC_CAPS[c.lm + 1][StereoBit(c) + 1][k] + 64) * FREQ_RANGE[k])
               * 2 ^ (c.lm + StereoBit(c))) \div 4])

\* quanta of band i, computed on u8 as the source does
quanta_of(c, i) ==
    LET q == U8(FREQ_RANGE[i + 1] * 2 ^ (c.lm + StereoBit(c)))
    IN  Min(U8(q * 8), Max(q, 6 * 8))

\* how a call went so far: "ok", "panic", or "big" where tell_frac's value is
\* not followed
Worst(a, panic, big) == IF a # "ok" THEN a ELSE IF panic THEN "panic" ELSE IF big THEN "big" ELSE "ok"

\* the spread decision
alloc_spread(d, c) ==
    IF c.build = "debug" /\ available_underflows(d)
    THEN [st |-> "panic", rd |-> d, spread |-> 0]
    ELSE IF ULt(4, available(d))
    THEN Let(decode_icdf(d, MODEL_SPREAD),
             LAMBDA o : [st |-> Worst("ok", o.panic, FALSE), rd |-> o.rd, spread |-> o.ret])
    ELSE [st |-> "ok", rd |-> d, spread |-> SPREAD_NORMAL]

\* one test of the while loop's condition at band s.i, on
\* s = [st, rd, i, band_dynalloc, dynalloc, boost, boost_size]: a boost of the
\* band, or the step to the next band
boost_turn(s, c, caps) ==
    LET dyn  == IF s.boost[s.i + 1] # 0 /\ s.dynalloc > 2
                THEN s.dynalloc - 1 ELSE s.dynalloc
        next == [s EXCEPT !.i = s.i + 1, !.dynalloc = dyn, !.band_dynalloc = dyn]
    IN  Let(available_frac(s.rd, c.build),
            LAMBDA af :
              IF af.panic \/ af.big
              THEN [s EXCEPT !.st = Worst("ok", af.panic, af.big)]
              ELSE IF ULt(s.band_dynalloc * 8 + s.boost_size, af.v)
                      /\ s.boost[s.i + 1] < caps[s.i + 1]
              THEN Let(decode_logp(s.rd, s.band_dynalloc),
                       LAMBDA o :
                         IF ~o.ret THEN [next EXCEPT !.rd = o.rd]
                         ELSE [s EXCEPT !.rd = o.rd,
                                        !.boost[s.i + 1] = @ + quanta_of(c, s.i),
                                        !.boost_size = @ + quanta_of(c, s.i),
                                        !.band_dynalloc = 1])
              ELSE next)

RECURSIVE boost_turns(_, _, _, _)
\* up to n turns of the loop, halved so that no turn runs inside another
boost_turns(s, n, c, caps) ==
    IF s.st # "ok" \/ s.i >= c.end THEN s
    ELSE IF n = 1 THEN boost_turn(s, c, caps)
    ELSE Let(boost_turns(s, n \div 2, c, caps),
             LAMBDA t : boost_turns(t, n - n \div 2, c, caps))

\* the loop over the bands with its inner while loop; more than MaxBoosts
\* boosts are not followed ("long")
boost_loop(s, c, caps) ==
    Let(boost_turns(s, MAX_BANDS + MaxBoosts, c, caps),
        LAMBDA t : IF t.st = "ok" /\ t.i < c.end THEN [t EXCEPT !.st = "long"] ELSE t)

\* alloc_trim and the bits set aside: [st, rd, alloc_trim, available,
\* anticollapse_bit, skip_bit, intensity_stereo_bit, dual_stereo_bit]
alloc_reserve(d, c, boost_size) ==
    Let(available_frac(d, c.build),
        LAMBDA af :
          IF af.panic \/ af.big THEN [st |-> Worst("ok", af.panic, af.big), rd |-> d]
          ELSE Let(IF ULt(boost_size + 6 * 8, af.v) THEN decode_icdf(d, ALLOC_TRIM)
                   ELSE Outcome(d, 5, FALSE),
                   LAMBDA o :
                     IF o.panic THEN [st |-> "panic", rd |-> o.rd]
                     ELSE Let(available_frac(o.rd, c.build),
                              LAMBDA a2 :
                                IF a2.panic \/ a2.big \/ (c.build = "debug" /\ a2.v = 0)
                                THEN [st |-> Worst("ok", a2.panic \/ (~a2.big /\ a2.v = 0), a2.big),
                                      rd |-> o.rd]
                                ELSE LET a0   == a2.v - 1
                                         anti == IF c.blocks > 1 /\ c.lm >= 2
                                                    /\ ULeq((c.lm + 2) * 8, a0)
                                                 THEN 8 ELSE 0
                                         a1   == a0 - anti
                                         skip == IF ULeq(8, a1) THEN 8 ELSE 0
                                         a3   == a1 - skip
                                         ist  == LOG2_FRAC[c.end - c.start + 1]
                                         isb  == IF c.stereo /\ ULeq(ist, a3) THEN ist ELSE 0
                                         a4   == IF c.stereo /\ ULeq(ist, a3) THEN a3 - ist ELSE a3
                                         dsb  == IF c.stereo /\ ULeq(ist, a3) /\ ULeq(8, a4)
                                                 THEN 8 ELSE 0
                                     IN  [st |-> "ok", rd |-> o.rd, alloc_trim |-> o.ret,
                                          available |-> a4 - dsb,
                                          anticollapse_bit |-> anti, skip_bit |-> skip,
                                          intensity_stereo_bit |-> isb,
                                          dual_stereo_bit |-> dsb])))

threshold_of(c) ==
    Vec([k \in 1..MAX_BANDS |->
           Max((3 * FREQ_RANGE[k] * 2 ^ (c.lm + 3)) \div 16, StereoBit(c) * 256)])

trim_offset_of(c, alloc_trim) ==
    Vec([k \in 1..MAX_BANDS |->
           IF k - 1 \in Bands(c)
           THEN Asr((alloc_trim - (5 + c.lm))
                       * ((FREQ_RANGE[k] * (c.end - (k - 1) - 1))
                            * 2 ^ (c.lm + 3 + StereoBit(c))), 6)
                - (IF U8(FREQ_RANGE[k] * 2 ^ c.lm) = 1 THEN StereoBit(c) * 256 ELSE 0)
           ELSE 0])

\* bits_estimation(idx) for band i, idx from 0
bits_estimation(c, trim_offset, idx, i) ==
    LET bits == ((FREQ_RANGE[i + 1] * STATIC_ALLOC[idx + 1][i + 1])
                    * 2 ^ (StereoBit(c) + c.lm)) \div 4
    IN  IF bits # 0 THEN Max(bits + trim_offset[i + 1], 0) ELSE bits

\* the total of one pass from the last band down over the bits b[i + 1]:
\* once a band reaches its threshold, it and every band below count in full
pass_total(c, b, threshold, caps) ==
    LET ccb == (StereoBit(c) + 1) * 8
        done(i) == \E j \in i..(c.end - 1) : b[j + 1] >= threshold[j + 1]
        part == [i \in Bands(c) |->
                   IF done(i) THEN Min(b[i + 1], caps[i + 1])
                   ELSE IF b[i + 1] >= ccb THEN ccb ELSE 0]
    IN  SumOver(part, c.start, c.end - 1)

RECURSIVE bisect_static(_, _)
\* the search over the rows of STATIC_ALLOC on s = [low, high]; x carries
\* c, boost, trim_offset, threshold, caps and available
bisect_static(s, x) ==
    IF s.low > s.high THEN s
    ELSE LET center == (s.low + s.high) \div 2
             b == [k \in 1..MAX_BANDS |->
                     IF k - 1 \in Bands(x.c)
                     THEN bits_estimation(x.c, x.trim_offset, center, k - 1) + x.boost[k]
                     ELSE 0]
         IN  Let(pass_total(x.c, b, x.threshold, x.caps),
                 LAMBDA total :
                   IF ULt(x.available, total)
                   THEN bisect_static([low |-> s.low, high |-> center - 1], x)
                   ELSE bisect_static([low |-> center + 1, high |-> s.high], x))

\* bits1 and bits2 of the rows low and high
bits1_of(x, low) ==
    Vec([k \in 1..MAX_BANDS |->
           IF k - 1 \in Bands(x.c)
           THEN bits_estimation(x.c, x.trim_offset, low, k - 1)
                + (IF x.boost[k] # 0 /\ low # 0 THEN x.boost[k] ELSE 0)
           ELSE 0])

bits2_of(x, high, bits1) ==
    Vec([k \in 1..MAX_BANDS |->
           IF k - 1 \in Bands(x.c)
           THEN Max(bits_estimation(x.c, x.trim_offset, high, k - 1) + x.boost[k]
                      - bits1[k], 0)
           ELSE 0])

\* the last band with a boost, band.start when there is none
skip_startband_of(c, boost) ==
    IF \E i \in Bands(c) : boost[i + 1] # 0
    THEN CHOOSE i \in Bands(c) :
           boost[i + 1] # 0 /\ \A j \in (i + 1)..(c.end - 1) : boost[j + 1] = 0
    ELSE c.start

interpolated(bits1, bits2, step) ==
    Vec([k \in 1..MAX_BANDS |-> bits1[k] + Asr(step * bits2[k], ALLOC_STEPS)])

RECURSIVE bisect_steps(_, _, _, _)
\* the ALLOC_STEPS rounds between bits1 and bits1 + bits2 on s = [low, high, i]
bisect_steps(s, x, bits1, bits2) ==
    IF s.i >= ALLOC_STEPS THEN s
    ELSE LET center == (s.low + s.high) \div 2
         IN  Let(pass_total(x.c, interpolated(bits1, bits2, center), x.threshold, x.caps),
                 LAMBDA total :
                   IF ULt(x.available, total)
                   THEN bisect_steps([low |-> s.low, high |-> center, i |-> s.i + 1],
                                     x, bits1, bits2)
                   ELSE bisect_steps([low |-> center, high |-> s.high, i |-> s.i + 1],
                                     x, bits1, bits2))

\* pulses after the searches, zero outside the band
first_pulses(x, b) ==
    LET ccb == (StereoBit(x.c) + 1) * 8
        done(i) == \E j \in i..(x.c.end - 1) : b[j + 1] >= x.threshold[j + 1]
    IN  Vec([k \in 1..MAX_BANDS |->
               IF k - 1 \in Bands(x.c)
               THEN Min(IF done(k - 1) THEN b[k] ELSE IF b[k] >= ccb THEN ccb ELSE 0,
                        x.caps[k])
               ELSE x.pulses[k]])

\* one round of the loop that finds codedband, on s = [st, rd, j, total,
\* available, intensity_stereo_bit, pulses, codedband]; codedband is 0 until
\* the loop breaks, j = band.start - 1 is the iterator run dry
skip_round(s, x) ==
    IF s.j < x.c.start THEN [s EXCEPT !.st = "panic"]
    ELSE IF s.j = x.skip_startband
    THEN [s EXCEPT !.available = @ + x.skip_bit, !.codedband = s.j + 1]
    ELSE LET ccb == (StereoBit(x.c) + 1) * 8
             band_delta == FREQ_BANDS[s.j + 2] - FREQ_BANDS[x.c.start + 1]
             left == s.available - s.total
             bits == DivT(left, band_delta)
             remaining == left - bits * band_delta
             allocation == s.pulses[s.j + 1] + bits * FREQ_BANDS[s.j + 1]
                             + Max(0, remaining - band_delta)
             asks == allocation >= Max(x.threshold[s.j + 1], ccb)
             skipped(d, alloc, total) ==
                 LET isb == IF s.intensity_stereo_bit # 0
                            THEN LOG2_FRAC[s.j - x.c.start + 1] ELSE 0
                     p == IF alloc >= ccb THEN ccb ELSE 0
                 IN  [st |-> "ok", rd |-> d, j |-> s.j - 1,
                      total |-> total - s.pulses[s.j + 1] - s.intensity_stereo_bit + isb + p,
                      available |-> s.available,
                      intensity_stereo_bit |-> isb,
                      pulses |-> [s.pulses EXCEPT ![s.j + 1] = p],
                      codedband |-> s.codedband]
         IN  IF asks
             THEN Let(decode_logp(s.rd, 1),
                      LAMBDA o :
                        IF o.ret THEN [s EXCEPT !.rd = o.rd, !.codedband = s.j + 1]
                        ELSE skipped(o.rd, allocation - 8, s.total + 8))
             ELSE skipped(s.rd, allocation, s.total)

RECURSIVE skip_rounds(_, _, _)
skip_rounds(s, n, x) ==
    IF s.st # "ok" \/ s.codedband # 0 THEN s
    ELSE IF n = 1 THEN skip_round(s, x)
    ELSE Let(skip_rounds(s, n \div 2, x), LAMBDA t : skip_rounds(t, n - n \div 2, x))

skip_loop(s, x) == skip_rounds(s, MAX_BANDS + 1, x)

\* intensity_stereo and dual_stereo: [st, rd, intensity_stereo, dual_stereo, available]
alloc_stereo(s, x) ==
    Let(IF s.intensity_stereo_bit # 0
        THEN decode_uniform(s.rd, s.codedband + 1 - x.c.start)
        ELSE [rd |-> s.rd, ret |-> 0, panic |-> FALSE],
        LAMBDA o :
          LET intensity_stereo == IF s.intensity_stereo_bit # 0 THEN x.c.start + o.ret ELSE 0
          IN  IF o.panic
              THEN [st |-> "panic", rd |-> o.rd, intensity_stereo |-> 0,
                    dual_stereo |-> FALSE, available |-> s.available]
              ELSE IF intensity_stereo <= x.c.start
              THEN [st |-> "ok", rd |-> o.rd, intensity_stereo |-> intensity_stereo,
                    dual_stereo |-> FALSE, available |-> s.available + x.dual_stereo_bit]
              ELSE IF x.dual_stereo_bit # 0
              THEN Let(decode_logp(o.rd, 1),
                       LAMBDA l : [st |-> "ok", rd |-> l.rd,
                                   intensity_stereo |-> intensity_stereo,
                                   dual_stereo |-> l.ret, available |-> s.available])
              ELSE [st |-> "ok", rd |-> o.rd, intensity_stereo |-> intensity_stereo,
                    dual_stereo |-> FALSE, available |-> s.available])

\* the bits left over, spread over the bands of the range: [pulses, remaining]
distribute(c, pulses, codedband, avail, total) ==
    LET band_delta == FREQ_BANDS[codedband + 1] - FREQ_BANDS[c.start + 1]
        left == avail - total
        bandbits == DivT(left, band_delta)
        rem[i \in (c.start)..(c.end)] ==
            IF i = c.start THEN left - bandbits * band_delta
            ELSE Max(rem[i - 1] - FREQ_RANGE[i], 0)
    IN  Let(Vec([i \in 1..(MAX_BANDS + 1) |-> IF i - 1 \in (c.start)..(c.end) THEN rem[i - 1] ELSE 0]),
            LAMBDA r :
              Vec([k \in 1..MAX_BANDS |->
                     IF k - 1 \in Bands(c)
                     THEN pulses[k] + Min(r[k], FREQ_RANGE[k]) + bandbits * FREQ_RANGE[k]
                     ELSE pulses[k]]))

\* one band of the fine-bits loop on s = [i, extrabits, pulses, fine_bits, fine_priority]
fine_band(s, x) ==
    LET i  == s.i
        n  == FREQ_RANGE[i + 1] * 2 ^ x.c.lm
        st == StereoBit(x.c)
        p0 == s.pulses[i + 1] + s.extrabits
        \* n > 1
        extraN == Max(0, p0 - x.caps[i + 1])
        pN  == p0 - extraN
        dof == n * (st + 1)
                 + (IF x.c.stereo /\ n > 2 /\ ~x.dual_stereo /\ i < x.intensity_stereo
                    THEN 1 ELSE 0)
        dof_channels == dof * (LOG_FREQ_RANGE[i + 1] + x.c.lm * 8)
        off0 == Asr(dof_channels, 1) - dof * FINE_OFFSET + (IF n = 2 THEN dof * 2 ELSE 0)
        off1 == IF pN + off0 < 2 * (dof * 8) THEN off0 + Asr(dof_channels, 2)
                ELSE IF pN + off0 < 3 * (dof * 8) THEN off0 + Asr(dof_channels, 3)
                ELSE off0
        pulse == pN + off1
        fine  == DivT(pulse + dof * 4, dof * 8)
        max_bits == Max(Min(Asr(Asr(pN, 3), st), MAX_FINE_BITS), 0)
        fbN == Min(Max(fine, 0), max_bits)
        fpN == fbN * (dof * 8) >= pulse
        \* n <= 1
        extra1 == Max(p0 - (st + 1) * 8, 0)
        \* either
        extrabits == IF n > 1 THEN extraN ELSE extra1
        p  == IF n > 1 THEN pN - fbN * 2 ^ st * 8 ELSE p0 - extra1
        fb == IF n > 1 THEN fbN ELSE 0
        fp == IF n > 1 THEN fpN ELSE TRUE
        scale == st + 1 + 2
        extra_fine == Min(MAX_FINE_BITS - fb, Asr(extrabits, scale))
    IN  IF extrabits > 0
        THEN [i |-> i + 1,
              extrabits |-> extrabits - extra_fine * 2 ^ scale,
              pulses |-> [s.pulses EXCEPT ![i + 1] = p],
              fine_bits |-> [s.fine_bits EXCEPT ![i + 1] = fb + extra_fine],
              fine_priority |-> [s.fine_priority EXCEPT
                                   ![i + 1] = extra_fine * 2 ^ scale >= extrabits - s.extrabits]]
        ELSE [i |-> i + 1,
              extrabits |-> extrabits,
              pulses |-> [s.pulses EXCEPT ![i + 1] = p],
              fine_bits |-> [s.fine_bits EXCEPT ![i + 1] = fb],
              fine_priority |-> [s.fine_priority EXCEPT ![i + 1] = fp]]

RECURSIVE fine_bands(_, _, _)
fine_bands(s, n, x) ==
    IF s.i >= x.c.end THEN s
    ELSE IF n = 1 THEN fine_band(s, x)
    ELSE Let(fine_bands(s, n \div 2, x), LAMBDA t : fine_bands(t, n - n \div 2, x))

fine_loop(s, x) == fine_bands(s, MAX_BANDS, x)

\* the loop over codedband .. band.end
uncoded(s, c, codedband) ==
    LET st == StereoBit(c)
        fb(k) == Asr(Asr(s.pulses[k], st), 3)
        tail(k) == k - 1 \in codedband..(c.end - 1)
    IN  [pulses |-> Vec([k \in 1..MAX_BANDS |-> IF tail(k) THEN 0 ELSE s.pulses[k]]),
         fine_bits |-> Vec([k \in 1..MAX_BANDS |-> IF tail(k) THEN fb(k) ELSE s.fine_bits[k]]),
         fine_priority |-> Vec([k \in 1..MAX_BANDS |->
                                  IF tail(k) THEN fb(k) < 1 ELSE s.fine_priority[k]])]

NoBits == [k \in 1..MAX_BANDS |-> 0] \o <<>>

NoPriority == [k \in 1..MAX_BANDS |-> FALSE] \o <<>>

\* what decode_allocation leaves in the Celt struct and the decoder; status
\* is "returned", "panic", or "big"
Allocation(status, d, y) ==
    [status |-> status, rd |-> d, spread |-> y.spread,
     anticollapse_bit |-> y.anticollapse_bit,
     pulses |-> y.pulses, fine_bits |-> y.fine_bits, fine_priority |-> y.fine_priority,
     codedband |-> y.codedband, remaining |-> y.remaining,
     intensity_stereo |-> y.intensity_stereo, dual_stereo |-> y.dual_stereo]

NoAllocation ==
    [spread |-> 0, anticollapse_bit |-> 0, pulses |-> NoBits, fine_bits |-> NoBits,
     fine_priority |-> NoPriority, codedband |-> 0, remaining |-> 0,
     intensity_stereo |-> 0, dual_stereo |-> FALSE]

Stopped(st, d) == Allocation(st, d, NoAllocation)

\* from the fine-bits loop to the end; x carries the values found so far
alloc_finish(x, d, pulses) ==
    Let(fine_loop([i |-> x.c.start, extrabits |-> 0, pulses |-> pulses,
                   fine_bits |-> NoBits, fine_priority |-> NoPriority], x),
        LAMBDA f :
          Let(uncoded(f, x.c, x.codedband),
              LAMBDA u :
                Allocation("returned", d,
                           [spread |-> x.spread, anticollapse_bit |-> x.anticollapse_bit,
                            pulses |-> u.pulses, fine_bits |-> u.fine_bits,
                            fine_priority |-> u.fine_priority,
                            codedband |-> x.codedband, remaining |-> f.extrabits,
                            intensity_stereo |-> x.intensity_stereo,
                            dual_stereo |-> x.dual_stereo])))

\* from the skip loop on
alloc_skip(x, d, pulses) ==
    Let(skip_loop([st |-> "ok", rd |-> d, j |-> x.c.end - 1,
                   total |-> SumOver(pulses, x.c.start + 1, x.c.end),
                   available |-> x.available,
                   intensity_stereo_bit |-> x.intensity_stereo_bit,
                   pulses |-> pulses, codedband |-> 0], x),
        LAMBDA s :
          IF s.st # "ok" THEN Stopped(s.st, s.rd)
          ELSE Let(alloc_stereo(s, x),
                   LAMBDA t :
                     IF t.st # "ok" THEN Stopped(t.st, t.rd)
                     ELSE Let(distribute(x.c, s.pulses, s.codedband, t.available, s.total),
                              LAMBDA p :
                                alloc_finish([c |-> x.c, caps |-> x.caps,
                                              spread |-> x.spread,
                                              anticollapse_bit |-> x.anticollapse_bit,
                                              codedband |-> s.codedband,
                                              intensity_stereo |-> t.intensity_stereo,
                                              dual_stereo |-> t.dual_stereo],
                                             t.rd, p))))

\* the two searches and the first pulses
alloc_search(x, d) ==
    Let(bisect_static([low |-> 1, high |-> CELT_VECTOR - 1], x),
        LAMBDA s :
          IF s.low >= CELT_VECTOR THEN Stopped("panic", d)
          ELSE Let(bits1_of(x, s.low - 1),
                   LAMBDA bits1 :
                     Let(bits2_of(x, s.low, bits1),
                         LAMBDA bits2 :
                           Let(bisect_steps([low |-> 0, high |-> 2 ^ ALLOC_STEPS, i |-> 0],
                                            x, bits1, bits2),
                               LAMBDA t :
                                 Let(first_pulses(x, interpolated(bits1, bits2, t.low)),
                                     LAMBDA pulses : alloc_skip(x, d, pulses))))))

decode_allocation(d, c) ==
    (CHOOSE chosen \in {(
          IF a.st # "ok" THEN Stopped(a.st, a.rd)
          ELSE (CHOOSE chosen \in {(
                     IF consumed.panic \/ consumed.big
                     THEN Stopped(Worst("ok", consumed.panic, consumed.big), a.rd)
                     ELSE (CHOOSE chosen \in {(
    (CHOOSE chosen \in {(
          IF b.st # "ok" THEN Stopped(b.st, b.rd)
          ELSE (CHOOSE chosen \in {(
                     IF r.st # "ok" THEN Stopped(r.st, r.rd)
                     ELSE (CHOOSE chosen \in {(
                                         alloc_search(x, r.rd)) : x \in {(
                              [c |-> c, caps |-> caps, boost |-> b.boost,
                               threshold |-> threshold_of(c),
                               trim_offset |-> trim_offset_of(c, r.alloc_trim),
                               available |-> r.available,
                               skip_bit |-> r.skip_bit,
                               intensity_stereo_bit |-> r.intensity_stereo_bit,
                               dual_stereo_bit |-> r.dual_stereo_bit,
                               skip_startband |-> skip_startband_of(c, b.boost),
                               pulses |-> NoBits,
                               spread |-> a.spread,
                               anticollapse_bit |-> r.anticollapse_bit])}} : TRUE)) : r \in {(
                   alloc_reserve(b.rd, c, b.boost_size))}} : TRUE)) : b \in {(
        boost_loop([st |-> "ok", rd |-> a.rd, i |-> c.start, band_dynalloc |-> 6,
                    dynalloc |-> 6, boost |-> NoBits, boost_size |-> 0], c, caps))}} : TRUE)) : caps \in {(
                              caps_of(c))}} : TRUE)) : consumed \in {(
                   tell_frac(a.rd, c.build))}} : TRUE)) : a \in {(
        alloc_spread(d, c))}} : TRUE)

MaxAllocLen == 4

\* the frames the decoder starts from: zero frames and two one-byte frames
AllocFrames == {[i \in 1..n |-> 0] \o <<>> : n \in 1..MaxAllocLen} \cup {<<53>>, <<255>>}

\* band ranges of the bandwidths, from band 0 or from the hybrid start band
AllocBands == {<<0, 13>>, <<0, 17>>, <<0, 19>>, <<0, 21>>, <<17, 19>>, <<17, 21>>}

AllocInputs ==
    {[buf |-> buf, lm |-> lm, stereo |-> stereo, blocks |-> blocks,
      start |-> band[1], end |-> band[2], build |-> build] :
        buf \in AllocFrames, lm \in 0..3, stereo \in BOOLEAN, blocks \in {0, 1},
        band \in AllocBands, build \in {"debug", "release"}}

\* blocks is 1 or 1 << lm
BlocksOf(a) == IF a.blocks = 0 THEN 1 ELSE 2 ^ a.lm

InitAlloc ==
    /\ rd = NoDecoder /\ last = NoCall /\ ops = <<>> /\ panicked = FALSE
    /\ pc = "alloc" /\ pkt = NoPacket /\ fi = 0
    /\ silk = Silk_new /\ celt = Celt_new
    /\ result = "none" /\ log = <<>> /\ npkts = 0
    /\ dec = Dec_new
    /\ smp = NoSilk
    /\ \E a \in AllocInputs :
          fx = [fn |-> "decode_allocation", arg |-> [a EXCEPT !.blocks = BlocksOf(a)],
                done |-> FALSE, out |-> Stopped("none", NoDecoder)]

DecodeAllocation ==
    /\ pc = "alloc" /\ fx.fn = "decode_allocation" /\ ~fx.done
    /\ \E out \in {decode_allocation(RangeDecoder_new(fx.arg.buf), fx.arg)} :
          fx' = [fx EXCEPT !.done = TRUE, !.out = out]
    /\ FxOnly

NextAlloc == DecodeAllocation

SpecAlloc == InitAlloc /\ [][NextAlloc]_vars

(***************************************************************************)
(* Celt::decode, as far as it reads from the range decoder: the silence    *)
(* flag, to_end, the post-filter, the transient flag, the coarse energy,   *)
(* the tf changes, the allocation and the fine energy.  The energies and   *)
(* gains themselves are floats and are left out; decode_bands is not       *)
(* followed.                                                               *)
(***************************************************************************)
COARSE_ENERGY_INTRA ==
    <<
      <<24, 179, 48, 138, 54, 135, 54, 132, 53, 134, 56, 133, 55, 132, 55, 132, 61, 114, 70,
        96, 74, 88, 75, 88, 87, 74, 89, 66, 91, 67, 100, 59, 108, 50, 120, 40, 122, 37, 97,
        43, 78, 50>>,
      <<23, 178, 54, 115, 63, 102, 66, 98, 69, 99, 74, 89, 71, 91, 73, 91, 78, 89, 86, 80,
        92, 66, 93, 64, 102, 59, 103, 60, 104, 60, 117, 52, 123, 44, 138, 35, 133, 31, 97,
        38, 77, 45>>,
      <<21, 178, 59, 110, 71, 86, 75, 85, 84, 83, 91, 66, 88, 73, 87, 72, 92, 75, 98, 72,
        105, 58, 107, 54, 115, 52, 114, 55, 112, 56, 129, 51, 132, 40, 150, 33, 140, 29, 98,
        35, 77, 42>>,
      <<22, 178, 63, 114, 74, 82, 84, 83, 92, 82, 103, 62, 96, 72, 96, 67, 101, 73, 107, 72,
        113, 55, 118, 52, 125, 52, 118, 52, 117, 55, 135, 49, 137, 39, 157, 32, 145, 29, 97,
        33, 77, 40>>
    >>

COARSE_ENERGY_INTER ==
    <<
      <<72, 127, 65, 129, 66, 128, 65, 128, 64, 128, 62, 128, 64, 128, 64, 128, 92, 78, 92,
        79, 92, 78, 90, 79, 116, 41, 115, 40, 114, 40, 132, 26, 132, 26, 145, 17, 161, 12,
        176, 10, 177, 11>>,
      <<83, 78, 84, 81, 88, 75, 86, 74, 87, 71, 90, 73, 93, 74, 93, 74, 109, 40, 114, 36,
        117, 34, 117, 34, 143, 17, 145, 18, 146, 19, 162, 12, 165, 10, 178, 7, 189, 6, 190,
        8, 177, 9>>,
      <<61, 90, 93, 60, 105, 42, 107, 41, 110, 45, 116, 38, 113, 38, 112, 38, 124, 26, 132,
        27, 136, 19, 140, 20, 155, 14, 159, 16, 158, 18, 170, 13, 177, 10, 187, 8, 192, 6,
        175, 9, 159, 10>>,
      <<42, 121, 96, 66, 108, 43, 111, 40, 117, 44, 123, 32, 120, 36, 119, 33, 127, 33, 134,
        34, 139, 21, 147, 23, 152, 20, 158, 25, 154, 26, 166, 21, 173, 16, 184, 13, 184, 10,
        150, 13, 139, 15>>
    >>

MODEL_ENERGY_SMALL == [total |-> 4, dist |-> <<2, 3, 4>>]

\* TF_SELECT[lm][transient][select][changed], each index from 1
TF_SELECT ==
    << << << <<0, -1>>, <<0, -1>> >>, << <<0, -1>>, <<0, -1>> >> >>,
       << << <<0, -1>>, <<0, -2>> >>, << <<1, 0>>, <<1, -1>> >> >>,
       << << <<0, -2>>, <<0, -3>> >>, << <<2, 0>>, <<1, -1>> >> >>,
       << << <<0, -2>>, <<0, -3>> >>, << <<3, 0>>, <<1, -1>> >> >> >>

\* rd.available() where a build with overflow checks panics on underflow
available_checked(d, build) ==
    [panic |-> build = "debug" /\ available_underflows(d), v |-> available(d)]

\* the reader after rawbits(len), the bits themselves set aside
rawbits_read(d, len) ==
    IF len = 0 THEN d
    ELSE [d EXCEPT !.revs = skip_rem(IF d.revs.left <= len
                                     THEN ReverseBitReadLE_refill32(d.buf, d.revs)
                                     ELSE d.revs, len)]

\* a stage's result: how it went (st as in the allocation), and the decoder
Went(st, d) == [st |-> st, rd |-> d]

\* the silence flag: [st, rd, silence, flagged]
celt_silence(d, build) ==
    IF available_checked(d, build).panic
    THEN [st |-> "panic", rd |-> d, silence |-> FALSE, flagged |-> FALSE]
    ELSE IF ULt(0, available(d))
    THEN Let(decode_logp(d, 15),
             LAMBDA o : [st |-> "ok", rd |-> o.rd, silence |-> o.ret, flagged |-> TRUE])
    ELSE [st |-> "ok", rd |-> d, silence |-> TRUE, flagged |-> FALSE]

\* rd.to_end(): size_in_bits - tell() underflows when tell() is the larger
to_end_checked(d, build) ==
    IF build = "debug" /\ available_underflows(d) THEN Went("panic", d)
    ELSE Went("ok", to_end(d))

parse_postfilter(d, build) ==
    Let(decode_logp(d, 1),
        LAMBDA f :
          IF ~f.ret THEN Went("ok", f.rd)
          ELSE Let(decode_uniform(f.rd, 6),
                   LAMBDA octave :
                     IF octave.panic THEN Went("panic", octave.rd)
                     ELSE Let(rawbits_read(rawbits_read(octave.rd, 4 + octave.ret), 3),
                              LAMBDA r :
                                IF available_checked(r, build).panic THEN Went("panic", r)
                                ELSE IF ULeq(2, available(r))
                                THEN Let(decode_icdf(r, TAPSET),
                                         LAMBDA t : Went(IF t.panic THEN "panic" ELSE "ok", t.rd))
                                ELSE Went("ok", r))))

\* the post-filter and the transient flag: [st, rd, transient]
celt_transient(d, c) ==
    Let(IF available_checked(d, c.build).panic THEN Went("panic", d)
        ELSE IF c.start = 0 /\ ULeq(16, available(d)) THEN parse_postfilter(d, c.build)
        ELSE Went("ok", d),
        LAMBDA p :
          IF p.st # "ok" THEN [st |-> p.st, rd |-> p.rd, transient |-> FALSE]
          ELSE IF c.lm # 0 /\ available_checked(p.rd, c.build).panic
          THEN [st |-> "panic", rd |-> p.rd, transient |-> FALSE]
          ELSE IF c.lm # 0 /\ ULeq(3, available(p.rd))
          THEN Let(decode_logp(p.rd, 3),
                   LAMBDA o : [st |-> "ok", rd |-> o.rd, transient |-> o.ret])
          ELSE [st |-> "ok", rd |-> p.rd, transient |-> FALSE])

\* coarse_energy_band for pair n = band * channels + channel, on s = [st, rd, n]
coarse_energy_band(s, c, model) ==
    LET i == s.n \div (StereoBit(c) + 1)
        k == Min(i, 20) * 2
        next(st, d) == [st |-> st, rd |-> d, n |-> s.n + 1]
    IN  IF i < c.start \/ i >= c.end THEN next("ok", s.rd)
        ELSE IF available_checked(s.rd, c.build).panic THEN next("panic", s.rd)
        ELSE IF ULeq(15, available(s.rd))
        THEN Let(decode_laplace(s.rd, model[k + 1] * 128, model[k + 2] * 64),
                 LAMBDA o : next(IF o.panic THEN "panic" ELSE "ok", o.rd))
        ELSE IF ULeq(1, available(s.rd))
        THEN Let(decode_icdf(s.rd, MODEL_ENERGY_SMALL),
                 LAMBDA o : next(IF o.panic THEN "panic" ELSE "ok", o.rd))
        ELSE next("ok", s.rd)

RECURSIVE coarse_energy_bands(_, _, _, _)
coarse_energy_bands(s, n, c, model) ==
    IF s.st # "ok" \/ s.n >= MAX_BANDS * (StereoBit(c) + 1) THEN s
    ELSE IF n = 1 THEN coarse_energy_band(s, c, model)
    ELSE Let(coarse_energy_bands(s, n \div 2, c, model),
             LAMBDA t : coarse_energy_bands(t, n - n \div 2, c, model))

decode_coarse_energy(d, c) ==
    Let(IF available_checked(d, c.build).panic THEN [st |-> "panic", rd |-> d, ret |-> FALSE]
        ELSE IF ULt(3, available(d))
        THEN Let(decode_logp(d, 3), LAMBDA o : [st |-> "ok", rd |-> o.rd, ret |-> o.ret])
        ELSE [st |-> "ok", rd |-> d, ret |-> FALSE],
        LAMBDA intra :
          IF intra.st # "ok" THEN Went(intra.st, intra.rd)
          ELSE Let(coarse_energy_bands([st |-> "ok", rd |-> intra.rd, n |-> 0],
                                       MAX_BANDS * 2, c,
                                       IF intra.ret THEN COARSE_ENERGY_INTRA[c.lm + 1]
                                       ELSE COARSE_ENERGY_INTER[c.lm + 1]),
                   LAMBDA s : Went(s.st, s.rd)))

\* one band of decode_tf_changes on s = [st, rd, i, available, diff, changed, field_bits]
tf_change_band(s, c, bits, select_bit) ==
    IF ULt(s.field_bits + (IF select_bit THEN 1 ELSE 0), s.available)
    THEN Let(decode_logp(s.rd, s.field_bits),
             LAMBDA o :
               [st |-> IF available_checked(o.rd, c.build).panic THEN "panic" ELSE "ok",
                rd |-> o.rd, i |-> s.i + 1, available |-> available(o.rd),
                diff |-> s.diff # o.ret, changed |-> s.changed \/ (s.diff # o.ret),
                field_bits |-> bits[2]])
    ELSE [s EXCEPT !.i = s.i + 1, !.field_bits = bits[2]]

RECURSIVE tf_change_bands(_, _, _, _, _)
tf_change_bands(s, n, c, bits, select_bit) ==
    IF s.st # "ok" \/ s.i >= c.end THEN s
    ELSE IF n = 1 THEN tf_change_band(s, c, bits, select_bit)
    ELSE Let(tf_change_bands(s, n \div 2, c, bits, select_bit),
             LAMBDA t : tf_change_bands(t, n - n \div 2, c, bits, select_bit))

decode_tf_changes(d, c, transient) ==
    IF available_checked(d, c.build).panic THEN Went("panic", d)
    ELSE LET bits == IF transient THEN <<2, 4>> ELSE <<4, 5>>
             tf_select == TF_SELECT[c.lm + 1][IF transient THEN 2 ELSE 1]
             select_bit == c.lm # 0 /\ ULt(bits[1], available(d))
         IN  Let(tf_change_bands([st |-> "ok", rd |-> d, i |-> c.start,
                                  available |-> available(d), diff |-> FALSE,
                                  changed |-> FALSE, field_bits |-> bits[1]],
                                 MAX_BANDS, c, bits, select_bit),
                 LAMBDA s :
                   IF s.st # "ok" THEN Went(s.st, s.rd)
                   ELSE IF select_bit
                           /\ tf_select[1][IF s.changed THEN 2 ELSE 1]
                                # tf_select[2][IF s.changed THEN 2 ELSE 1]
                   THEN Went("ok", decode_logp(s.rd, 1).rd)
                   ELSE Went("ok", s.rd))

\* one rawbits call of decode_fine_energy for pair n = band * channels + channel;
\* a width outside 0..32 is not followed ("big")
fine_energy_band(s, c, fine_bits) ==
    LET i == s.n \div (StereoBit(c) + 1)
    IN  IF i < c.start \/ i >= c.end \/ fine_bits[i + 1] = 0
        THEN [s EXCEPT !.n = s.n + 1]
        ELSE IF fine_bits[i + 1] < 0 \/ fine_bits[i + 1] > 32
        THEN [s EXCEPT !.st = "big"]
        ELSE [st |-> IF c.build = "debug" /\ fine_bits[i + 1] > 14 THEN "panic" ELSE "ok",
              rd |-> rawbits_read(s.rd, fine_bits[i + 1]), n |-> s.n + 1]

RECURSIVE fine_energy_bands(_, _, _, _)
fine_energy_bands(s, n, c, fine_bits) ==
    IF s.st # "ok" \/ s.n >= MAX_BANDS * (StereoBit(c) + 1) THEN s
    ELSE IF n = 1 THEN fine_energy_band(s, c, fine_bits)
    ELSE Let(fine_energy_bands(s, n \div 2, c, fine_bits),
             LAMBDA t : fine_energy_bands(t, n - n \div 2, c, fine_bits))

decode_fine_energy(d, c, fine_bits) ==
    Let(fine_energy_bands([st |-> "ok", rd |-> d, n |-> 0], MAX_BANDS * 2, c, fine_bits),
        LAMBDA s : Went(s.st, s.rd))

\* What Celt::decode did to the decoder: how far it got (stage, status as in
\* the allocation), the silence flag and whether it was read, the decoder
\* right after the flag and to_end (ended), after the tf changes (coded),
\* after the allocation (allocated) and at the end (rd).
CeltDecoded(status, stage, f, ended, coded, allocated, d) ==
    [status |-> status, stage |-> stage, silence |-> f.silence, flagged |-> f.flagged,
     ended |-> ended, coded |-> coded, allocated |-> allocated, rd |-> d]

\* the stages after the transient flag, on c with blocks set
celt_decode_rest(d, c, f, ended, transient) ==
    (CHOOSE chosen \in {(
          IF e.st # "ok" THEN CeltDecoded(e.st, "coarse_energy", f, ended, e.rd, e.rd, e.rd)
          ELSE (CHOOSE chosen \in {(
                     IF t.st # "ok" THEN CeltDecoded(t.st, "tf_changes", f, ended, t.rd, t.rd, t.rd)
                     ELSE (CHOOSE chosen \in {(
                                IF a.status # "returned"
                                THEN CeltDecoded(a.status, "allocation", f, ended, t.rd, a.rd, a.rd)
                                ELSE (CHOOSE chosen \in {(
                                           CeltDecoded(IF g.st = "ok" THEN "returned" ELSE g.st,
                                                   "fine_energy", f, ended, t.rd, a.rd, g.rd)) : g \in {(
                                         decode_fine_energy(a.rd, c, a.fine_bits))}} : TRUE)) : a \in {(
                              decode_allocation(t.rd, c))}} : TRUE)) : t \in {(
                   decode_tf_changes(e.rd, c, transient))}} : TRUE)) : e \in {(
        decode_coarse_energy(d, c))}} : TRUE)

\* Celt::decode up to decode_bands; c = [lm, stereo, start, end, build]
celt_decode(d, c) ==
    (CHOOSE chosen \in {(
          IF f.st # "ok" THEN CeltDecoded(f.st, "silence", f, f.rd, f.rd, f.rd, f.rd)
          ELSE (CHOOSE chosen \in {(
                     IF z.st # "ok" THEN CeltDecoded(z.st, "silence", f, z.rd, z.rd, z.rd, z.rd)
                     ELSE (CHOOSE chosen \in {(
                                IF t.st # "ok"
                                THEN CeltDecoded(t.st, "transient", f, z.rd, t.rd, t.rd, t.rd)
                                ELSE celt_decode_rest(
                                         t.rd,
                                         [lm |-> c.lm, stereo |-> c.stereo,
                                          blocks |-> IF t.transient THEN 2 ^ c.lm ELSE 1,
                                          start |-> c.start, end |-> c.end,
                                          build |-> c.build],
                                         f, z.rd, t.transient)) : t \in {(
                              celt_transient(z.rd, c))}} : TRUE)) : z \in {(
                   IF f.silence THEN to_end_checked(f.rd, c.build) ELSE Went("ok", f.rd))}} : TRUE)) : f \in {(
        celt_silence(d, c.build))}} : TRUE)

MaxCeltLen == 3

\* the frames Celt::decode starts from: frames of 0xFF bytes (the silence flag
\* decodes as set from the second byte on), zero frames and a one-byte frame
CeltFrames ==
    {[i \in 1..n |-> 255] \o <<>> : n \in 1..MaxCeltLen}
        \cup {[i \in 1..n |-> 0] \o <<>> : n \in 1..MaxCeltLen} \cup {<<53>>}

CeltInputs ==
    {[buf |-> buf, lm |-> lm, stereo |-> stereo,
      start |-> band[1], end |-> band[2], build |-> build] :
        buf \in CeltFrames, lm \in 0..3, stereo \in BOOLEAN,
        band \in AllocBands, build \in {"debug", "release"}}

NoCeltFrame ==
    CeltDecoded("none", "none", [silence |-> FALSE, flagged |-> FALSE],
                NoDecoder, NoDecoder, NoDecoder, NoDecoder)

InitCelt ==
    /\ rd = NoDecoder /\ last = NoCall /\ ops = <<>> /\ panicked = FALSE
    /\ pc = "celt" /\ pkt = NoPacket /\ fi = 0
    /\ silk = Silk_new /\ celt = Celt_new
    /\ result = "none" /\ log = <<>> /\ npkts = 0
    /\ dec = Dec_new
    /\ smp = NoSilk
    /\ \E a \in CeltInputs :
          fx = [fn |-> "celt_decode", arg |-> a, done |-> FALSE, out |-> NoCeltFrame]

CeltDecodeFrame ==
    /\ pc = "celt" /\ fx.fn = "celt_decode" /\ ~fx.done
    /\ \E out \in {celt_decode(RangeDecoder_new(fx.arg.buf), fx.arg)} :
          fx' = [fx EXCEPT !.done = TRUE, !.out = out]
    /\ FxOnly

NextCelt == CeltDecodeFrame

SpecCelt == InitCelt /\ [][NextCelt]_vars

(***************************************************************************)
(* tell_frac against tell, on decoders reached from RangeDecoder::new by   *)
(* decode_logp calls.                                                      *)
(***************************************************************************)
MaxTellLen == 2

MaxTellOps == 2

TellFrames ==
    UNION {[1..n -> {0, 255}] : n \in 1..MaxTellLen} \cup {<<53>>}

TellCalls == UNION {[1..n -> {1, 15}] : n \in 0..MaxTellOps}

\* the decoder after the calls decode_logp(calls[1]), decode_logp(calls[2]), ...
RECURSIVE after_logps(_, _)
after_logps(d, calls) ==
    IF calls = <<>> THEN d
    ELSE Let(decode_logp(d, Head(calls)).rd, LAMBDA e : after_logps(e, Tail(calls)))

NoTell == [tell |-> 0, frac |-> [panic |-> FALSE, big |-> FALSE, v |-> 0], rd |-> NoDecoder]

InitTell ==
    /\ rd = NoDecoder /\ last = NoCall /\ ops = <<>> /\ panicked = FALSE
    /\ pc = "tell" /\ pkt = NoPacket /\ fi = 0
    /\ silk = Silk_new /\ celt = Celt_new
    /\ result = "none" /\ log = <<>> /\ npkts = 0
    /\ dec = Dec_new
    /\ smp = NoSilk
    /\ \E buf \in TellFrames, calls \in TellCalls, build \in {"debug", "release"} :
          fx = [fn |-> "tell_frac",
                arg |-> [buf |-> buf \o <<>>, calls |-> calls \o <<>>, build |-> build],
                done |-> FALSE, out |-> NoTell]

TellFrac ==
    /\ pc = "tell" /\ fx.fn = "tell_frac" /\ ~fx.done
    /\ \E d \in {after_logps(RangeDecoder_new(fx.arg.buf), fx.arg.calls)} :
          fx' = [fx EXCEPT !.done = TRUE,
                           !.out = [tell |-> tell(d), frac |-> tell_frac(d, fx.arg.build),
                                    rd |-> d]]
    /\ FxOnly

NextTell == TellFrac

SpecTell == InitTell /\ [][NextTell]_vars

(***************************************************************************)
(* Band::stabilize on a vector of ORDER i16 values.                        *)
(***************************************************************************)
LSF_MIN_SPACING_NB_MB == <<250, 3, 6, 3, 3, 3, 4, 3, 3, 3, 461>>

LSF_MIN_SPACING_WB == <<100, 3, 40, 3, 3, 3, 5, 14, 14, 10, 11, 3, 8, 9, 7, 3, 347>>

MIN_SPACING(order) ==
    IF order = WB_ORDER THEN LSF_MIN_SPACING_WB ELSE LSF_MIN_SPACING_NB_MB

\* an i16 sum: a panic where overflow is checked, the wrapped value otherwise
AddI16(a, b, build) ==
    [panic |-> build = "debug" /\ AsI16(a + b) # a + b, v |-> AsI16(a + b)]

\* high - low - spacing for i = 0..ORDER (1-based here)
spacing_diffs(nlsfs, order) ==
    [i \in 1..(order + 1) |->
        (IF i = order + 1 THEN 32768 ELSE nlsfs[i])
            - (IF i = 1 THEN 0 ELSE nlsfs[i - 1]) - MIN_SPACING(order)[i]]

\* one adjustment pass on s = [st, n, passes]; st is "run", "done" after the
\* early return, or "panic"
stabilize_pass(s, order, build) ==
    LET ms == MIN_SPACING(order)
        diffs == spacing_diffs(s.n, order)
        min_diff == Min(0, CHOOSE d \in {diffs[i] : i \in 1..(order + 1)} :
                               \A i \in 1..(order + 1) : d <= diffs[i])
        \* k of the source, plus one
        k == CHOOSE i \in 1..(order + 1) :
                 diffs[i] = min_diff /\ \A j \in 1..(i - 1) : diffs[j] > min_diff
    IN  IF min_diff = 0 THEN [s EXCEPT !.st = "done"]
        ELSE IF k = 1
        THEN [s EXCEPT !.n = [s.n EXCEPT ![1] = ms[1]], !.passes = s.passes + 1]
        ELSE IF k = order + 1
        THEN [s EXCEPT !.n = [s.n EXCEPT ![order] = AsI16(32768 - ms[order + 1])],
                       !.passes = s.passes + 1]
        ELSE LET half_delta == ms[k] \div 2
                 min_center == AsI16(SumOver(ms, 1, k - 1)) + half_delta
                 max_center == 32768 - AsI16(SumOver(ms, k + 1, order + 1)) - half_delta
                 delta == s.n[k - 1] + s.n[k]
                 center == (delta \div 2) + (delta % 2)
                 lower == AsI16(Min(Max(center, min_center), max_center) - half_delta)
                 upper == AddI16(lower, ms[k], build)
             IN  [st |-> IF upper.panic THEN "panic" ELSE "run",
                  n |-> [s.n EXCEPT ![k - 1] = lower, ![k] = upper.v],
                  passes |-> s.passes + 1]

RECURSIVE stabilize_passes(_, _, _, _)
stabilize_passes(s, turns, order, build) ==
    IF s.st # "run" THEN s
    ELSE IF turns = 1 THEN stabilize_pass(s, order, build)
    ELSE Let(stabilize_passes(s, turns \div 2, order, build),
             LAMBDA t : stabilize_passes(t, turns - turns \div 2, order, build))

\* nlsfs.sort_unstable()
sort_unstable(v) ==
    Vec([i \in 1..Len(v) |->
           CHOOSE x \in {v[j] : j \in 1..Len(v)} :
               /\ Cardinality({j \in 1..Len(v) : v[j] < x}) < i
               /\ i <= Cardinality({j \in 1..Len(v) : v[j] <= x})])

\* the sweep upwards: [panic, n], each value raised to prev + spacing
RECURSIVE sweep_up(_, _, _, _, _)
sweep_up(n, i, prev, order, build) ==
    IF i > order THEN [panic |-> FALSE, n |-> n]
    ELSE LET v == AddI16(prev, MIN_SPACING(order)[i], build)
             x == IF n[i] < v.v THEN v.v ELSE n[i]
         IN  IF v.panic THEN [panic |-> TRUE, n |-> n]
             ELSE sweep_up([n EXCEPT ![i] = x], i + 1, x, order, build)

\* the sweep downwards from 32768
RECURSIVE sweep_down(_, _, _, _)
sweep_down(n, i, next, order) ==
    IF i < 1 THEN n
    ELSE LET v == next - MIN_SPACING(order)[i + 1]
             x == IF n[i] > v THEN AsI16(v) ELSE n[i]
         IN  sweep_down([n EXCEPT ![i] = x], i - 1, x, order)

\* stabilize: [st, n, passes, swept]; st is "done" or "panic"
stabilize(nlsfs, order, build) ==
    Let(stabilize_passes([st |-> "run", n |-> nlsfs, passes |-> 0], 20, order, build),
        LAMBDA s :
          IF s.st # "run" THEN [st |-> s.st, n |-> s.n, passes |-> s.passes, swept |-> FALSE]
          ELSE Let(sweep_up(sort_unstable(s.n), 1, 0, order, build),
                   LAMBDA u :
                     IF u.panic
                     THEN [st |-> "panic", n |-> u.n, passes |-> s.passes, swept |-> TRUE]
                     ELSE [st |-> "done", n |-> Vec(sweep_down(u.n, order, 32768, order)),
                           passes |-> s.passes, swept |-> TRUE]))

MaxHigh == 3

\* the vectors stabilize is given: values at the two ends of the i16 range
\* with at most MaxHigh of them at the top, evenly spaced vectors, and
\* vectors clustered around one value
StabilizeInputs ==
    LET ends(order) == {v \in [1..order -> {0, 32767}] :
                           Cardinality({i \in 1..order : v[i] = 32767}) <= MaxHigh}
        even(order) == {[i \in 1..order |-> (i * 32768) \div (order + 1)]}
        near(order) == {[i \in 1..order |-> Min(32767, base + i * step)] :
                           base \in {0, 16000, 32700}, step \in 0..MaxHigh}
    IN  {<<Vec(v), order>> :
            order \in {NB_MB_ORDER},
            v \in ends(NB_MB_ORDER) \cup even(NB_MB_ORDER) \cup near(NB_MB_ORDER)}
        \cup {<<Vec(v), order>> :
            order \in {WB_ORDER},
            v \in ends(WB_ORDER) \cup even(WB_ORDER) \cup near(WB_ORDER)}

NoStabilize == [st |-> "none", n |-> <<>>, passes |-> 0, swept |-> FALSE]

InitStabilize ==
    /\ rd = NoDecoder /\ last = NoCall /\ ops = <<>> /\ panicked = FALSE
    /\ pc = "stabilize" /\ pkt = NoPacket /\ fi = 0
    /\ silk = Silk_new /\ celt = Celt_new
    /\ result = "none" /\ log = <<>> /\ npkts = 0
    /\ dec = Dec_new
    /\ smp = NoSilk
    /\ \E a \in StabilizeInputs, build \in {"debug", "release"} :
          fx = [fn |-> "stabilize", arg |-> [nlsfs |-> a[1], order |-> a[2], build |-> build],
                done |-> FALSE, out |-> NoStabilize]

Stabilize ==
    /\ pc = "stabilize" /\ fx.fn = "stabilize" /\ ~fx.done
    /\ \E out \in {stabilize(fx.arg.nlsfs, fx.arg.order, fx.arg.build)} :
          fx' = [fx EXCEPT !.done = TRUE, !.out = out]
    /\ FxOnly

NextStabilize == Stabilize

SpecStabilize == InitStabilize /\ [][NextStabilize]_vars

(***************************************************************************)
(* SilkFrame::parse_excitation: the pulse counts of the shell blocks, the  *)
(* four-level location split, the LSB extension and the signs.  The        *)
(* residuals, floats scaled from the excitation, are left out.             *)
(***************************************************************************)
\* SHELL_BLOCKS[long_frame as usize] of the bandwidth
SHELL_BLOCKS(bandwidth, long_frame) ==
    LET row == IF bandwidth = "Narrow" THEN <<5, 10>>
               ELSE IF bandwidth = "Medium" THEN <<8, 15>>
               ELSE <<10, 20>>
    IN  row[IF long_frame THEN 2 ELSE 1]

\* the context `off' places after the one called name in SILK_ICDFS
SilkIcdf(name, off) ==
    SILK_ICDFS[(CHOOSE i \in 1..Len(SILK_ICDFS) : SILK_ICDFS[i].name = name) + off]

\* the last draw taken from context 9 instead of context 10
pulse_count_last_from_9(s) ==
    IF s.panic \/ s.l # 10 THEN s
    ELSE Let(decode_icdf(s.rd, PULSE_COUNT[10]),
             LAMBDA o : [s EXCEPT !.rd = o.rd, !.p = o.ret, !.panic = o.panic,
                                  !.draws = Append(s.draws, 9)])

\* the last draw of a pulse count, from PULSE_COUNT[10], made when l == 10
pulse_count_last(s) ==
    IF s.panic \/ s.l # 10 THEN s
    ELSE Let(decode_icdf(s.rd, PULSE_COUNT[11]),
             LAMBDA o : [s EXCEPT !.rd = o.rd, !.p = o.ret, !.panic = o.panic,
                                  !.draws = Append(s.draws, 10)])

\* while p == 17 && { l += 1; l } != 10 { p = rd.decode_icdf(PULSE_COUNT[9]) }
RECURSIVE pulse_count_while(_)
pulse_count_while(s) ==
    IF s.panic \/ s.p # 17 THEN s
    ELSE IF s.l + 1 # 10
    THEN Let(decode_icdf(s.rd, PULSE_COUNT[10]),
             LAMBDA o : pulse_count_while([rd |-> o.rd, first |-> s.first, p |-> o.ret,
                                           l |-> s.l + 1, panic |-> o.panic,
                                           draws |-> Append(s.draws, 9)]))
    ELSE [s EXCEPT !.l = s.l + 1]

\* the pulse count of one shell block: [rd, first, p, l, draws, panic], with
\* first the initial draw, l the value stored in lsbcount and draws the
\* indices of the contexts of the overflow draws
pulse_count(d, ratelevel) ==
    Let(decode_icdf(d, PULSE_COUNT[ratelevel + 1]),
        LAMBDA o :
          Let([rd |-> o.rd, first |-> o.ret, p |-> o.ret, l |-> 0, panic |-> o.panic,
               draws |-> <<>>],
              LAMBDA s : pulse_count_last(pulse_count_while(s))))

\* split_loc with the right half given all the pulses
split_loc_right_all(d, level, avail) ==
    IF avail = 0 THEN [rd |-> d, panic |-> FALSE, dist |-> <<0, 0>>]
    ELSE IF avail < 1 \/ avail > 16 THEN [rd |-> d, panic |-> TRUE, dist |-> <<0, 0>>]
    ELSE Let(decode_icdf(d, SilkIcdf("PULSE_LOCATION[0]", level * 16 + avail - 1)),
             LAMBDA o : [rd |-> o.rd, panic |-> o.panic, dist |-> <<o.ret, avail>>])

\* split_loc: [rd, panic, dist]
split_loc(d, level, avail) ==
    IF avail = 0 THEN [rd |-> d, panic |-> FALSE, dist |-> <<0, 0>>]
    ELSE IF avail < 1 \/ avail > 16 THEN [rd |-> d, panic |-> TRUE, dist |-> <<0, 0>>]
    ELSE Let(decode_icdf(d, SilkIcdf("PULSE_LOCATION[0]", level * 16 + avail - 1)),
             LAMBDA o : [rd |-> o.rd, panic |-> o.panic, dist |-> <<o.ret, avail - o.ret>>])

\* the nested loops over the halves, from level on: [rd, panic, loc]
RECURSIVE split_levels(_, _, _)
split_levels(d, level, avail) ==
    IF level = 4 THEN [rd |-> d, panic |-> FALSE, loc |-> <<avail>>]
    ELSE Let(split_loc(d, level, avail),
             LAMBDA s :
               IF s.panic THEN [rd |-> s.rd, panic |-> TRUE, loc |-> <<>>]
               ELSE Let(split_levels(s.rd, level + 1, s.dist[1]),
                        LAMBDA left :
                          IF left.panic THEN left
                          ELSE Let(split_levels(left.rd, level + 1, s.dist[2]),
                                   LAMBDA right :
                                     [rd |-> right.rd, panic |-> right.panic,
                                      loc |-> left.loc \o right.loc])))

\* the locations of one shell block of p pulses
pulse_locations(d, p) ==
    IF p = 0 THEN [rd |-> d, panic |-> FALSE, loc |-> ZeroVec(16)]
    ELSE split_levels(d, 0, p)

\* one draw of the LSB extension, step n = location * bits + bit of a block
lsb_step(s, bits) ==
    Let(decode_icdf(s.rd, SilkIcdf("EXC_LSB", 0)),
        LAMBDA o :
          [rd |-> o.rd, panic |-> o.panic, n |-> s.n + 1,
           loc |-> [s.loc EXCEPT ![s.n \div bits + 1] = @ * 2 + o.ret]])

RECURSIVE lsb_steps(_, _, _)
lsb_steps(s, turns, bits) ==
    IF s.panic \/ s.n >= 16 * bits THEN s
    ELSE IF turns = 1 THEN lsb_step(s, bits)
    ELSE Let(lsb_steps(s, turns \div 2, bits),
             LAMBDA t : lsb_steps(t, turns - turns \div 2, bits))

\* the sign of location n + 1 of a block of p pulses
sign_step(s, p, frame_type) ==
    IF s.loc[s.n + 1] = 0 THEN [s EXCEPT !.n = s.n + 1]
    ELSE LET signal_type == (IF frame_type.voiced THEN 1 ELSE 0)
                                + (IF frame_type.active THEN 1 ELSE 0)
             qoffset_type == IF frame_type.high THEN 1 ELSE 0
         IN  Let(decode_icdf(s.rd, SilkIcdf("EXC_SIGN[0]",
                                            signal_type * 14 + qoffset_type * 7 + Min(p, 6))),
                 LAMBDA o :
                   [rd |-> o.rd, panic |-> o.panic, n |-> s.n + 1,
                    loc |-> [s.loc EXCEPT ![s.n + 1] = IF o.ret = 0 THEN -@ ELSE @]])

RECURSIVE sign_steps(_, _, _, _)
sign_steps(s, turns, p, frame_type) ==
    IF s.panic \/ s.n >= 16 THEN s
    ELSE IF turns = 1 THEN sign_step(s, p, frame_type)
    ELSE Let(sign_steps(s, turns \div 2, p, frame_type),
             LAMBDA t : sign_steps(t, turns - turns \div 2, p, frame_type))

\* The three loops over the shell blocks, each on x = [rd, panic, blocks], a
\* block being [first, p, lsb, draws, split, excitation]: split holds the
\* magnitudes after the location split, excitation the values after the
\* loops run so far.
RECURSIVE count_blocks(_, _, _)
count_blocks(x, n, ratelevel) ==
    IF x.panic \/ n = 0 THEN x
    ELSE Let(pulse_count(x.rd, ratelevel),
             LAMBDA c :
               count_blocks([rd |-> c.rd, panic |-> c.panic,
                             blocks |-> Append(x.blocks,
                                               [first |-> c.first, p |-> c.p, lsb |-> c.l,
                                                draws |-> c.draws, split |-> ZeroVec(16),
                                                excitation |-> ZeroVec(16)])],
                            n - 1, ratelevel))

RECURSIVE locate_blocks(_, _)
locate_blocks(x, b) ==
    IF x.panic \/ b > Len(x.blocks) THEN x
    ELSE Let(pulse_locations(x.rd, x.blocks[b].p),
             LAMBDA s :
               IF s.panic THEN [x EXCEPT !.rd = s.rd, !.panic = TRUE]
               ELSE locate_blocks([rd |-> s.rd, panic |-> FALSE,
                                   blocks |-> [x.blocks EXCEPT ![b].split = s.loc,
                                                               ![b].excitation = s.loc]],
                                  b + 1))

RECURSIVE extend_blocks(_, _)
extend_blocks(x, b) ==
    IF x.panic \/ b > Len(x.blocks) THEN x
    ELSE Let(lsb_steps([rd |-> x.rd, panic |-> FALSE, n |-> 0,
                        loc |-> x.blocks[b].excitation], 256, x.blocks[b].lsb),
             LAMBDA s :
               extend_blocks([rd |-> s.rd, panic |-> s.panic,
                              blocks |-> [x.blocks EXCEPT ![b].excitation = s.loc]], b + 1))

RECURSIVE sign_blocks(_, _, _)
sign_blocks(x, b, frame_type) ==
    IF x.panic \/ b > Len(x.blocks) THEN x
    ELSE Let(sign_steps([rd |-> x.rd, panic |-> FALSE, n |-> 0,
                         loc |-> x.blocks[b].excitation], 16, x.blocks[b].p, frame_type),
             LAMBDA s :
               sign_blocks([rd |-> s.rd, panic |-> s.panic,
                            blocks |-> [x.blocks EXCEPT ![b].excitation = s.loc]],
                           b + 1, frame_type))

\* parse_excitation: [rd, panic, seed, ratelevel, blocks]
parse_excitation(d, frame_type, shell_blocks) ==
    Let(decode_icdf(d, SilkIcdf("LCG_SEED", 0)),
        LAMBDA seed :
          Let(decode_icdf(seed.rd, SilkIcdf("EXC_RATE[0]", IF frame_type.voiced THEN 1 ELSE 0)),
              LAMBDA ratelevel :
                IF seed.panic \/ ratelevel.panic
                THEN [rd |-> ratelevel.rd, panic |-> TRUE, seed |-> seed.ret,
                      ratelevel |-> ratelevel.ret, blocks |-> <<>>]
                ELSE Let(count_blocks([rd |-> ratelevel.rd, panic |-> FALSE, blocks |-> <<>>],
                                      shell_blocks, ratelevel.ret),
                         LAMBDA c :
                           Let(sign_blocks(extend_blocks(locate_blocks(c, 1), 1), 1,
                                           frame_type),
                               LAMBDA x :
                                 [rd |-> x.rd, panic |-> x.panic, seed |-> seed.ret,
                                  ratelevel |-> ratelevel.ret, blocks |-> x.blocks]))))

MaxOnes == 10

\* frames that open with up to MaxOnes bytes 0xFF (the longer the run, the
\* more overflow draws the first shell block makes), alone or followed by
\* one more byte
ExcitationFrames ==
    {[i \in 1..n |-> 255] \o <<>> : n \in 1..MaxOnes}
        \cup {([i \in 1..n |-> 255] \o <<>>) \o <<t>> : n \in 0..MaxOnes, t \in {0, 128, 254}}

NoExcitation == [rd |-> NoDecoder, panic |-> FALSE, seed |-> 0, ratelevel |-> 0, blocks |-> <<>>]

InitExcitation ==
    /\ rd = NoDecoder /\ last = NoCall /\ ops = <<>> /\ panicked = FALSE
    /\ pc = "excitation" /\ pkt = NoPacket /\ fi = 0
    /\ silk = Silk_new /\ celt = Celt_new
    /\ result = "none" /\ log = <<>> /\ npkts = 0
    /\ dec = Dec_new
    /\ smp = NoSilk
    /\ \E buf \in ExcitationFrames, vad \in BOOLEAN, sym \in 0..3, long_frame \in BOOLEAN,
          bandwidth \in {"Narrow", "Medium", "Wide"} :
          /\ vad \/ sym <= 1
          /\ fx = [fn |-> "parse_excitation",
                   arg |-> [buf |-> buf, frame_type |-> frame_type_of(vad, sym),
                            shell_blocks |-> SHELL_BLOCKS(bandwidth, long_frame)],
                   done |-> FALSE, out |-> NoExcitation]

ParseExcitation ==
    /\ pc = "excitation" /\ fx.fn = "parse_excitation" /\ ~fx.done
    /\ \E out \in {parse_excitation(RangeDecoder_new(fx.arg.buf), fx.arg.frame_type,
                                    fx.arg.shell_blocks)} :
          fx' = [fx EXCEPT !.done = TRUE, !.out = out]
    /\ FxOnly

NextExcitation == ParseExcitation

SpecExcitation == InitExcitation /\ [][NextExcitation]_vars

(***************************************************************************)
(* SilkFrame::parse_lpc from the stage-2 indices to the NLSFs it stores:   *)
(* the residuals by backward prediction, the recomposition with the        *)
(* stage-1 codebook, and the stabilisation.                                *)
(***************************************************************************)
LSF_PRED_WEIGHT_NB_MB ==
    <<
      <<179, 138, 140, 148, 151, 149, 153, 151, 163>>,
      <<116, 67, 82, 59, 92, 72, 100, 89, 92>>
    >>

LSF_PRED_WEIGHT_INDEX_NB_MB ==
    <<
      <<0, 1, 0, 0, 0, 0, 0, 0, 0>>,
      <<1, 0, 0, 0, 0, 0, 0, 0, 0>>,
      <<0, 0, 0, 0, 0, 0, 0, 0, 0>>,
      <<1, 1, 1, 0, 0, 0, 0, 1, 0>>,
      <<0, 1, 0, 0, 0, 0, 0, 0, 0>>,
      <<0, 1, 0, 0, 0, 0, 0, 0, 0>>,
      <<1, 0, 1, 1, 0, 0, 0, 1, 0>>,
      <<0, 1, 1, 0, 0, 1, 1, 0, 0>>,
      <<0, 0, 1, 1, 0, 1, 0, 1, 1>>,
      <<0, 0, 1, 1, 0, 0, 1, 1, 1>>,
      <<0, 0, 0, 0, 0, 0, 0, 0, 0>>,
      <<0, 1, 0, 1, 1, 1, 1, 1, 0>>,
      <<0, 1, 0, 1, 1, 1, 1, 1, 0>>,
      <<0, 1, 1, 1, 1, 1, 1, 1, 0>>,
      <<1, 0, 1, 1, 0, 1, 1, 1, 1>>,
      <<0, 1, 1, 1, 1, 1, 0, 1, 0>>,
      <<0, 0, 1, 1, 0, 1, 0, 1, 0>>,
      <<0, 0, 1, 1, 1, 0, 1, 1, 1>>,
      <<0, 1, 1, 0, 0, 1, 1, 1, 0>>,
      <<0, 0, 0, 1, 1, 1, 0, 1, 0>>,
      <<0, 1, 1, 0, 0, 1, 0, 1, 0>>,
      <<0, 1, 1, 0, 0, 0, 1, 1, 0>>,
      <<0, 0, 0, 0, 0, 1, 1, 1, 1>>,
      <<0, 0, 1, 1, 0, 0, 0, 1, 1>>,
      <<0, 0, 0, 1, 0, 1, 1, 1, 1>>,
      <<0, 1, 1, 1, 1, 1, 1, 1, 0>>,
      <<0, 0, 0, 0, 0, 0, 0, 0, 0>>,
      <<0, 0, 0, 0, 0, 0, 0, 0, 0>>,
      <<0, 0, 1, 0, 1, 1, 0, 1, 0>>,
      <<1, 0, 0, 1, 0, 0, 0, 0, 0>>,
      <<0, 0, 0, 1, 1, 0, 1, 0, 1>>,
      <<1, 0, 1, 1, 0, 1, 1, 1, 1>>
    >>

LSF_CODEBOOK_NB_MB ==
    <<
      <<12, 35, 60, 83, 108, 132, 157, 180, 206, 228>>,
      <<15, 32, 55, 77, 101, 125, 151, 175, 201, 225>>,
      <<19, 42, 66, 89, 114, 137, 162, 184, 209, 230>>,
      <<12, 25, 50, 72, 97, 120, 147, 172, 200, 223>>,
      <<26, 44, 69, 90, 114, 135, 159, 180, 205, 225>>,
      <<13, 22, 53, 80, 106, 130, 156, 180, 205, 228>>,
      <<15, 25, 44, 64, 90, 115, 142, 168, 196, 222>>,
      <<19, 24, 62, 82, 100, 120, 145, 168, 190, 214>>,
      <<22, 31, 50, 79, 103, 120, 151, 170, 203, 227>>,
      <<21, 29, 45, 65, 106, 124, 150, 171, 196, 224>>,
      <<30, 49, 75, 97, 121, 142, 165, 186, 209, 229>>,
      <<19, 25, 52, 70, 93, 116, 143, 166, 192, 219>>,
      <<26, 34, 62, 75, 97, 118, 145, 167, 194, 217>>,
      <<25, 33, 56, 70, 91, 113, 143, 165, 196, 223>>,
      <<21, 34, 51, 72, 97, 117, 145, 171, 196, 222>>,
      <<20, 29, 50, 67, 90, 117, 144, 168, 197, 221>>,
      <<22, 31, 48, 66, 95, 117, 146, 168, 196, 222>>,
      <<24, 33, 51, 77, 116, 134, 158, 180, 200, 224>>,
      <<21, 28, 70, 87, 106, 124, 149, 170, 194, 217>>,
      <<26, 33, 53, 64, 83, 117, 152, 173, 204, 225>>,
      <<27, 34, 65, 95, 108, 129, 155, 174, 210, 225>>,
      <<20, 26, 72, 99, 113, 131, 154, 176, 200, 219>>,
      <<34, 43, 61, 78, 93, 114, 155, 177, 205, 229>>,
      <<23, 29, 54, 97, 124, 138, 163, 179, 209, 229>>,
      <<30, 38, 56, 89, 118, 129, 158, 178, 200, 231>>,
      <<21, 29, 49, 63, 85, 111, 142, 163, 193, 222>>,
      <<27, 48, 77, 103, 133, 158, 179, 196, 215, 232>>,
      <<29, 47, 74, 99, 124, 151, 176, 198, 220, 237>>,
      <<33, 42, 61, 76, 93, 121, 155, 174, 207, 225>>,
      <<29, 53, 87, 112, 136, 154, 170, 188, 208, 227>>,
      <<24, 30, 52, 84, 131, 150, 166, 186, 203, 229>>,
      <<37, 48, 64, 84, 104, 118, 156, 177, 201, 230>>
    >>

LSF_WEIGHT_NB_MB ==
    <<
      <<2897, 2314, 2314, 2314, 2287, 2287, 2314, 2300, 2327, 2287>>,
      <<2888, 2580, 2394, 2367, 2314, 2274, 2274, 2274, 2274, 2194>>,
      <<2487, 2340, 2340, 2314, 2314, 2314, 2340, 2340, 2367, 2354>>,
      <<3216, 2766, 2340, 2340, 2314, 2274, 2221, 2207, 2261, 2194>>,
      <<2460, 2474, 2367, 2394, 2394, 2394, 2394, 2367, 2407, 2314>>,
      <<3479, 3056, 2127, 2207, 2274, 2274, 2274, 2287, 2314, 2261>>,
      <<3282, 3141, 2580, 2394, 2247, 2221, 2207, 2194, 2194, 2114>>,
      <<4096, 3845, 2221, 2620, 2620, 2407, 2314, 2394, 2367, 2074>>,
      <<3178, 3244, 2367, 2221, 2553, 2434, 2340, 2314, 2167, 2221>>,
      <<3338, 3488, 2726, 2194, 2261, 2460, 2354, 2367, 2207, 2101>>,
      <<2354, 2420, 2327, 2367, 2394, 2420, 2420, 2420, 2460, 2367>>,
      <<3779, 3629, 2434, 2527, 2367, 2274, 2274, 2300, 2207, 2048>>,
      <<3254, 3225, 2713, 2846, 2447, 2327, 2300, 2300, 2274, 2127>>,
      <<3263, 3300, 2753, 2806, 2447, 2261, 2261, 2247, 2127, 2101>>,
      <<2873, 2981, 2633, 2367, 2407, 2354, 2194, 2247, 2247, 2114>>,
      <<3225, 3197, 2633, 2580, 2274, 2181, 2247, 2221, 2221, 2141>>,
      <<3178, 3310, 2740, 2407, 2274, 2274, 2274, 2287, 2194, 2114>>,
      <<3141, 3272, 2460, 2061, 2287, 2500, 2367, 2487, 2434, 2181>>,
      <<3507, 3282, 2314, 2700, 2647, 2474, 2367, 2394, 2340, 2127>>,
      <<3423, 3535, 3038, 3056, 2300, 1950, 2221, 2274, 2274, 2274>>,
      <<3404, 3366, 2087, 2687, 2873, 2354, 2420, 2274, 2474, 2540>>,
      <<3760, 3488, 1950, 2660, 2897, 2527, 2394, 2367, 2460, 2261>>,
      <<3028, 3272, 2740, 2888, 2740, 2154, 2127, 2287, 2234, 2247>>,
      <<3695, 3657, 2025, 1969, 2660, 2700, 2580, 2500, 2327, 2367>>,
      <<3207, 3413, 2354, 2074, 2888, 2888, 2340, 2487, 2247, 2167>>,
      <<3338, 3366, 2846, 2780, 2327, 2154, 2274, 2287, 2114, 2061>>,
      <<2327, 2300, 2181, 2167, 2181, 2367, 2633, 2700, 2700, 2553>>,
      <<2407, 2434, 2221, 2261, 2221, 2221, 2340, 2420, 2607, 2700>>,
      <<3038, 3244, 2806, 2888, 2474, 2074, 2300, 2314, 2354, 2380>>,
      <<2221, 2154, 2127, 2287, 2500, 2793, 2793, 2620, 2580, 2367>>,
      <<3676, 3713, 2234, 1838, 2181, 2753, 2726, 2673, 2513, 2207>>,
      <<2793, 3160, 2726, 2553, 2846, 2513, 2181, 2394, 2221, 2181>>
    >>

LSF_PRED_WEIGHT_WB ==
    <<
      <<175, 148, 160, 176, 178, 173, 174, 164, 177, 174, 196, 182, 198, 192, 182>>,
      <<68, 62, 66, 60, 72, 117, 85, 90, 118, 136, 151, 142, 160, 142, 155>>
    >>

LSF_PRED_WEIGHT_INDEX_WB ==
    <<
      <<0, 0, 0, 0, 0, 0, 0, 0, 0, 0, 0, 0, 0, 0, 1>>,
      <<0, 0, 0, 0, 0, 0, 0, 0, 0, 0, 0, 0, 0, 0, 0>>,
      <<0, 0, 1, 0, 0, 1, 1, 1, 0, 1, 1, 1, 1, 0, 0>>,
      <<0, 0, 0, 0, 0, 0, 0, 0, 0, 0, 0, 0, 1, 0, 0>>,
      <<0, 1, 1, 0, 1, 0, 1, 1, 0, 1, 1, 1, 1, 1, 0>>,
      <<0, 0, 1, 0, 0, 0, 0, 0, 0, 0, 0, 0, 0, 0, 0>>,
      <<1, 0, 0, 0, 0, 0, 0, 0, 0, 0, 0, 1, 0, 1, 0>>,
      <<0, 1, 1, 0, 0, 0, 1, 0, 1, 1, 1, 0, 1, 0, 1>>,
      <<0, 1, 0, 1, 1, 0, 1, 0, 1, 0, 1, 1, 1, 1, 1>>,
      <<0, 0, 0, 0, 0, 0, 0, 0, 0, 0, 0, 0, 0, 0, 1>>,
      <<0, 1, 0, 0, 0, 0, 0, 0, 0, 0, 0, 0, 0, 0, 0>>,
      <<0, 0, 1, 0, 1, 1, 1, 1, 1, 1, 1, 0, 1, 0, 0>>,
      <<0, 0, 1, 0, 0, 1, 0, 1, 0, 1, 0, 0, 1, 0, 0>>,
      <<0, 0, 0, 0, 1, 1, 0, 1, 0, 1, 1, 1, 1, 0, 0>>,
      <<0, 1, 0, 0, 0, 1, 1, 0, 1, 1, 1, 0, 1, 1, 1>>,
      <<0, 0, 1, 1, 0, 0, 0, 0, 0, 0, 0, 0, 1, 1, 0>>,
      <<0, 1, 1, 0, 1, 0, 1, 1, 1, 1, 1, 0, 1, 0, 0>>,
      <<0, 0, 1, 0, 0, 0, 0, 1, 0, 0, 1, 1, 1, 0, 0>>,
      <<0, 0, 0, 0, 0, 0, 0, 0, 0, 0, 0, 0, 0, 0, 1>>,
      <<0, 0, 0, 0, 0, 0, 0, 0, 0, 0, 0, 0, 1, 0, 0>>,
      <<0, 0, 0, 0, 0, 0, 0, 0, 0, 0, 0, 0, 0, 0, 0>>,
      <<0, 1, 0, 1, 0, 1, 1, 0, 1, 0, 1, 0, 1, 1, 0>>,
      <<0, 0, 1, 1, 1, 1, 0, 1, 1, 0, 0, 1, 1, 0, 0>>,
      <<0, 1, 1, 0, 1, 0, 1, 0, 1, 0, 0, 0, 0, 1, 0>>,
      <<0, 0, 0, 1, 1, 0, 1, 0, 1, 1, 1, 1, 1, 1, 1>>,
      <<0, 0, 0, 0, 0, 0, 0, 0, 0, 0, 0, 0, 0, 0, 1>>,
      <<0, 1, 1, 0, 0, 0, 1, 1, 0, 0, 1, 1, 1, 1, 1>>,
      <<0, 0, 0, 0, 0, 1, 0, 1, 1, 1, 1, 0, 1, 1, 1>>,
      <<0, 0, 0, 0, 0, 0, 0, 0, 0, 0, 0, 0, 0, 0, 1>>,
      <<0, 0, 0, 0, 0, 0, 0, 0, 0, 0, 0, 0, 0, 0, 1>>,
      <<1, 0, 0, 0, 0, 0, 0, 0, 0, 0, 0, 1, 0, 0, 0>>,
      <<0, 0, 1, 0, 0, 1, 1, 1, 0, 0, 1, 0, 0, 1, 0>>
    >>

LSF_CODEBOOK_WB ==
    <<
      <<7, 23, 38, 54, 69, 85, 100, 116, 131, 147, 162, 178, 193, 208, 223, 239>>,
      <<13, 25, 41, 55, 69, 83, 98, 112, 127, 142, 157, 171, 187, 203, 220, 236>>,
      <<15, 21, 34, 51, 61, 78, 92, 106, 126, 136, 152, 167, 185, 205, 225, 240>>,
      <<10, 21, 36, 50, 63, 79, 95, 110, 126, 141, 157, 173, 189, 205, 221, 237>>,
      <<17, 20, 37, 51, 59, 78, 89, 107, 123, 134, 150, 164, 184, 205, 224, 240>>,
      <<10, 15, 32, 51, 67, 81, 96, 112, 129, 142, 158, 173, 189, 204, 220, 236>>,
      <<8, 21, 37, 51, 65, 79, 98, 113, 126, 138, 155, 168, 179, 192, 209, 218>>,
      <<12, 15, 34, 55, 63, 78, 87, 108, 118, 131, 148, 167, 185, 203, 219, 236>>,
      <<16, 19, 32, 36, 56, 79, 91, 108, 118, 136, 154, 171, 186, 204, 220, 237>>,
      <<11, 28, 43, 58, 74, 89, 105, 120, 135, 150, 165, 180, 196, 211, 226, 241>>,
      <<6, 16, 33, 46, 60, 75, 92, 107, 123, 137, 156, 169, 185, 199, 214, 225>>,
      <<11, 19, 30, 44, 57, 74, 89, 105, 121, 135, 152, 169, 186, 202, 218, 234>>,
      <<12, 19, 29, 46, 57, 71, 88, 100, 120, 132, 148, 165, 182, 199, 216, 233>>,
      <<17, 23, 35, 46, 56, 77, 92, 106, 123, 134, 152, 167, 185, 204, 222, 237>>,
      <<14, 17, 45, 53, 63, 75, 89, 107, 115, 132, 151, 171, 188, 206, 221, 240>>,
      <<9, 16, 29, 40, 56, 71, 88, 103, 119, 137, 154, 171, 189, 205, 222, 237>>,
      <<16, 19, 36, 48, 57, 76, 87, 105, 118, 132, 150, 167, 185, 202, 218, 236>>,
      <<12, 17, 29, 54, 71, 81, 94, 104, 126, 136, 149, 164, 182, 201, 221, 237>>,
      <<15, 28, 47, 62, 79, 97, 115, 129, 142, 155, 168, 180, 194, 208, 223, 238>>,
      <<8, 14, 30, 45, 62, 78, 94, 111, 127, 143, 159, 175, 192, 207, 223, 239>>,
      <<17, 30, 49, 62, 79, 92, 107, 119, 132, 145, 160, 174, 190, 204, 220, 235>>,
      <<14, 19, 36, 45, 61, 76, 91, 108, 121, 138, 154, 172, 189, 205, 222, 238>>,
      <<12, 18, 31, 45, 60, 76, 91, 107, 123, 138, 154, 171, 187, 204, 221, 236>>,
      <<13, 17, 31, 43, 53, 70, 83, 103, 114, 131, 149, 167, 185, 203, 220, 237>>,
      <<17, 22, 35, 42, 58, 78, 93, 110, 125, 139, 155, 170, 188, 206, 224, 240>>,
      <<8, 15, 34, 50, 67, 83, 99, 115, 131, 146, 162, 178, 193, 209, 224, 239>>,
      <<13, 16, 41, 66, 73, 86, 95, 111, 128, 137, 150, 163, 183, 206, 225, 241>>,
      <<17, 25, 37, 52, 63, 75, 92, 102, 119, 132, 144, 160, 175, 191, 212, 231>>,
      <<19, 31, 49, 65, 83, 100, 117, 133, 147, 161, 174, 187, 200, 213, 227, 242>>,
      <<18, 31, 52, 68, 88, 103, 117, 126, 138, 149, 163, 177, 192, 207, 223, 239>>,
      <<16, 29, 47, 61, 76, 90, 106, 119, 133, 147, 161, 176, 193, 209, 224, 240>>,
      <<15, 21, 35, 50, 61, 73, 86, 97, 110, 119, 129, 141, 175, 198, 218, 237>>
    >>

LSF_WEIGHT_WB ==
    <<
      <<3657, 2925, 2925, 2925, 2925, 2925, 2925, 2925, 2925, 2925, 2925, 2925, 2963, 2963,
         2925, 2846>>,
      <<3216, 3085, 2972, 3056, 3056, 3010, 3010, 3010, 2963, 2963, 3010, 2972, 2888, 2846,
         2846, 2726>>,
      <<3920, 4014, 2981, 3207, 3207, 2934, 3056, 2846, 3122, 3244, 2925, 2846, 2620, 2553,
         2780, 2925>>,
      <<3516, 3197, 3010, 3103, 3019, 2888, 2925, 2925, 2925, 2925, 2888, 2888, 2888, 2888,
         2888, 2753>>,
      <<5054, 5054, 2934, 3573, 3385, 3056, 3085, 2793, 3160, 3160, 2972, 2846, 2513, 2540,
         2753, 2888>>,
      <<4428, 4149, 2700, 2753, 2972, 3010, 2925, 2846, 2981, 3019, 2925, 2925, 2925, 2925,
         2888, 2726>>,
      <<3620, 3019, 2972, 3056, 3056, 2873, 2806, 3056, 3216, 3047, 2981, 3291, 3291, 2981,
         3310, 2991>>,
      <<5227, 5014, 2540, 3338, 3526, 3385, 3197, 3094, 3376, 2981, 2700, 2647, 2687, 2793,
         2846, 2673>>,
      <<5081, 5174, 4615, 4428, 2460, 2897, 3047, 3207, 3169, 2687, 2740, 2888, 2846, 2793,
         2846, 2700>>,
      <<3122, 2888, 2963, 2925, 2925, 2925, 2925, 2963, 2963, 2963, 2963, 2925, 2925, 2963,
         2963, 2963>>,
      <<4202, 3207, 2981, 3103, 3010, 2888, 2888, 2925, 2972, 2873, 2916, 3019, 2972, 3010,
         3197, 2873>>,
      <<3760, 3760, 3244, 3103, 2981, 2888, 2925, 2888, 2972, 2934, 2793, 2793, 2846, 2888,
         2888, 2660>>,
      <<3854, 4014, 3207, 3122, 3244, 2934, 3047, 2963, 2963, 3085, 2846, 2793, 2793, 2793,
         2793, 2580>>,
      <<3845, 4080, 3357, 3516, 3094, 2740, 3010, 2934, 3122, 3085, 2846, 2846, 2647, 2647,
         2846, 2806>>,
      <<5147, 4894, 3225, 3845, 3441, 3169, 2897, 3413, 3451, 2700, 2580, 2673, 2740, 2846,
         2806, 2753>>,
      <<4109, 3789, 3291, 3160, 2925, 2888, 2888, 2925, 2793, 2740, 2793, 2740, 2793, 2846,
         2888, 2806>>,
      <<5081, 5054, 3047, 3545, 3244, 3056, 3085, 2944, 3103, 2897, 2740, 2740, 2740, 2846,
         2793, 2620>>,
      <<4309, 4309, 2860, 2527, 3207, 3376, 3376, 3075, 3075, 3376, 3056, 2846, 2647, 2580,
         2726, 2753>>,
      <<3056, 2916, 2806, 2888, 2740, 2687, 2897, 3103, 3150, 3150, 3216, 3169, 3056, 3010,
         2963, 2846>>,
      <<4375, 3882, 2925, 2888, 2846, 2888, 2846, 2846, 2888, 2888, 2888, 2846, 2888, 2925,
         2888, 2846>>,
      <<2981, 2916, 2916, 2981, 2981, 3056, 3122, 3216, 3150, 3056, 3010, 2972, 2972, 2972,
         2925, 2740>>,
      <<4229, 4149, 3310, 3347, 2925, 2963, 2888, 2981, 2981, 2846, 2793, 2740, 2846, 2846,
         2846, 2793>>,
      <<4080, 4014, 3103, 3010, 2925, 2925, 2925, 2888, 2925, 2925, 2846, 2846, 2846, 2793,
         2888, 2780>>,
      <<4615, 4575, 3169, 3441, 3207, 2981, 2897, 3038, 3122, 2740, 2687, 2687, 2687, 2740,
         2793, 2700>>,
      <<4149, 4269, 3789, 3657, 2726, 2780, 2888, 2888, 3010, 2972, 2925, 2846, 2687, 2687,
         2793, 2888>>,
      <<4215, 3554, 2753, 2846, 2846, 2888, 2888, 2888, 2925, 2925, 2888, 2925, 2925, 2925,
         2963, 2888>>,
      <<5174, 4921, 2261, 3432, 3789, 3479, 3347, 2846, 3310, 3479, 3150, 2897, 2460, 2487,
         2753, 2925>>,
      <<3451, 3685, 3122, 3197, 3357, 3047, 3207, 3207, 2981, 3216, 3085, 2925, 2925, 2687,
         2540, 2434>>,
      <<2981, 3010, 2793, 2793, 2740, 2793, 2846, 2972, 3056, 3103, 3150, 3150, 3150, 3103,
         3010, 3010>>,
      <<2944, 2873, 2687, 2726, 2780, 3010, 3432, 3545, 3357, 3244, 3056, 3010, 2963, 2925,
         2888, 2846>>,
      <<3019, 2944, 2897, 3010, 3010, 2972, 3019, 3103, 3056, 3056, 3010, 2888, 2846, 2925,
         2925, 2888>>,
      <<3920, 3967, 3010, 3197, 3357, 3216, 3291, 3291, 3479, 3704, 3441, 2726, 2181, 2460,
         2580, 2607>>
    >>

\* the tables of the band of the given order: Band for NB_MB and for WB
Band(order) ==
    IF order = WB_ORDER
    THEN [ORDER |-> WB_ORDER, STEP |-> 9830, PRED_WEIGHT |-> LSF_PRED_WEIGHT_WB,
          PRED_WEIGHT_INDEX |-> LSF_PRED_WEIGHT_INDEX_WB, WEIGHT |-> LSF_WEIGHT_WB,
          CODEBOOK |-> LSF_CODEBOOK_WB]
    ELSE [ORDER |-> NB_MB_ORDER, STEP |-> 11796, PRED_WEIGHT |-> LSF_PRED_WEIGHT_NB_MB,
          PRED_WEIGHT_INDEX |-> LSF_PRED_WEIGHT_INDEX_NB_MB, WEIGHT |-> LSF_WEIGHT_NB_MB,
          CODEBOOK |-> LSF_CODEBOOK_NB_MB]

\* integer division truncating towards zero, as `/' on i32
DivTrunc(a, b) == IF a >= 0 THEN a \div b ELSE -((-a) \div b)

dequant_step(lsf_s2, step) ==
    LET fix == IF lsf_s2 < 0 THEN 102 ELSE IF lsf_s2 > 0 THEN -102 ELSE 0
    IN  AsI16(Asr((lsf_s2 * 1024 + fix) * step, 16))

\* one residual, for coefficient i, from the one after it: acc is
\* [panic, res], res holding the residuals of i + 1 .. order; the i16 sum
\* panics where overflow is checked
lsf_residual(acc, i, lsfs_s2, lsf_s1, order, build) ==
    Let(AddI16(dequant_step(lsfs_s2[i], Band(order).STEP),
               IF i = order THEN 0
               ELSE AsI16(Asr(acc.res[1]
                                * Band(order).PRED_WEIGHT
                                    [Band(order).PRED_WEIGHT_INDEX[lsf_s1 + 1][i] + 1][i],
                              8)),
               build),
        LAMBDA r : [panic |-> r.panic, res |-> IF r.panic THEN acc.res ELSE <<r.v>> \o acc.res])

RECURSIVE lsf_residuals_from(_, _, _, _, _, _)
lsf_residuals_from(acc, i, lsfs_s2, lsf_s1, order, build) ==
    IF i = 0 \/ acc.panic THEN acc
    ELSE Let(lsf_residual(acc, i, lsfs_s2, lsf_s1, order, build),
             LAMBDA a : lsf_residuals_from(a, i - 1, lsfs_s2, lsf_s1, order, build))

\* the residuals, from the last coefficient back: [panic, res]
lsf_residuals(lsfs_s2, lsf_s1, order, build) ==
    lsf_residuals_from([panic |-> FALSE, res |-> <<>>], order, lsfs_s2, lsf_s1, order, build)

\* nlsf.max(0).min(1 << 15) as i16
nlsf_stored(nlsf) == AsI16(Min(Max(nlsf, 0), 2 ^ 15))

\* the value of ((c as i32) << 7) + ((r as i32) << 14) / (w as i32)
nlsf_of(r, c, w) == c * 128 + DivTrunc(r * 16384, w)

NoNlsfs == [panic |-> FALSE, residuals |-> <<>>, raw |-> <<>>, nlsfs |-> <<>>, stable |-> <<>>]

\* the NLSFs as parse_lpc stores them and as stabilize leaves them:
\* [panic, residuals, raw, nlsfs, stable]
parse_nlsfs(lsfs_s2, lsf_s1, order, build) ==
    Let(lsf_residuals(lsfs_s2, lsf_s1, order, build),
        LAMBDA r :
          IF r.panic THEN [NoNlsfs EXCEPT !.panic = TRUE]
          ELSE
          Let(Vec([i \in 1..order |->
                     nlsf_of(r.res[i], Band(order).CODEBOOK[lsf_s1 + 1][i],
                             Band(order).WEIGHT[lsf_s1 + 1][i])]),
              LAMBDA raw :
                Let(Vec([i \in 1..order |-> nlsf_stored(raw[i])]),
                    LAMBDA nlsfs :
                      Let(stabilize(nlsfs, order, build),
                          LAMBDA s :
                            [panic |-> s.st = "panic", residuals |-> r.res,
                             raw |-> raw, nlsfs |-> nlsfs, stable |-> s.n]))))

MaxResidual == 4

\* stage-2 vectors: one index in every place, or alternating in sign
Stage2Vectors(order) ==
    {[i \in 1..order |-> v] : v \in (-MaxResidual)..MaxResidual}
        \cup {[i \in 1..order |-> IF i % 2 = 0 THEN v ELSE -v] : v \in 1..MaxResidual}

InitNlsf ==
    /\ rd = NoDecoder /\ last = NoCall /\ ops = <<>> /\ panicked = FALSE
    /\ pc = "nlsf" /\ pkt = NoPacket /\ fi = 0
    /\ silk = Silk_new /\ celt = Celt_new
    /\ result = "none" /\ log = <<>> /\ npkts = 0
    /\ dec = Dec_new
    /\ smp = NoSilk
    /\ \E order \in {NB_MB_ORDER, WB_ORDER}, lsf_s1 \in 0..31,
          build \in {"debug", "release"} :
          \E lsfs_s2 \in Stage2Vectors(order) :
             fx = [fn |-> "parse_nlsfs",
                   arg |-> [lsfs_s2 |-> Vec(lsfs_s2), lsf_s1 |-> lsf_s1, order |-> order,
                            build |-> build],
                   done |-> FALSE, out |-> NoNlsfs]

ParseNlsfs ==
    /\ pc = "nlsf" /\ fx.fn = "parse_nlsfs" /\ ~fx.done
    /\ \E out \in {parse_nlsfs(fx.arg.lsfs_s2, fx.arg.lsf_s1, fx.arg.order, fx.arg.build)} :
          fx' = [fx EXCEPT !.done = TRUE, !.out = out]
    /\ FxOnly

NextNlsf == ParseNlsfs

SpecNlsf == InitNlsf /\ [][NextNlsf]_vars

(***************************************************************************)
(* Packet::from_slice on the bytes of a packet.  A slice of the packet is  *)
(* the pair of its start and its end in the packet; a frame is recorded as *)
(* [off, len], the offset of its first byte in the packet and its length.  *)
(***************************************************************************)
MAX_FRAME_SIZE == 1275
MAX_FRAMES == 48

Lacing(st, off, v) == [st |-> st, off |-> off, v |-> v]

\* xiph_lacing_u16(&buf[pos .. end]): indexing an empty slice panics
xiph_lacing_u16(buf, pos, end) ==
    IF pos >= end THEN Lacing("panic", 0, 0)
    ELSE IF buf[pos + 1] >= 252
         THEN IF end - pos > 1 THEN Lacing("Ok", 2, buf[pos + 1] + 4 * buf[pos + 2])
              ELSE Lacing("Err", 0, 0)
         ELSE Lacing("Ok", 1, buf[pos + 1])

\* v > u32::MAX - 255, with u32::MAX - 255 = 16777215 * 256
above_u32_limit(v) == v \div 256 > 16777215 \/ (v \div 256 = 16777215 /\ v % 256 > 0)

\* the loop of xiph_lacing_u32 over &buf[pos .. end], o bytes taken
RECURSIVE xiph_lacing_u32_from(_, _, _, _, _)
xiph_lacing_u32_from(buf, pos, end, v, o) ==
    IF pos + o >= end THEN Lacing("Ok", o, v)
    ELSE IF buf[pos + o + 1] < 255 THEN Lacing("Ok", o + 1, v + buf[pos + o + 1])
    ELSE IF above_u32_limit(v + 254) THEN Lacing("Err", 0, 0)
    ELSE xiph_lacing_u32_from(buf, pos, end, v + 254, o + 1)

xiph_lacing_u32(buf, pos, end) == xiph_lacing_u32_from(buf, pos, end, 0, 0)

\* buf.chunks(len) over &buf[pos .. end], len > 0
chunks(pos, end, len) ==
    [k \in 1..((end - pos + len - 1) \div len) |->
        [off |-> pos + (k - 1) * len, len |-> Min(len, end - pos - (k - 1) * len)]]

\* the outcome of one of the four parsers: Ok with what it wrote to the
\* packet, Err, or a panic
ParserResult(st, code, vbr, padding, frames) ==
    [st |-> st, code |-> code, vbr |-> vbr, padding |-> padding, frames |-> frames]
NotParsed(st) == ParserResult(st, "Single", FALSE, 0, <<>>)

single_packet(buf, pos, end) ==
    ParserResult("Ok", "Single", FALSE, 0, <<[off |-> pos, len |-> end - pos]>>)

\* chunks(0) panics
double_packet_es(buf, pos, end) ==
    IF (end - pos) % 2 # 0 THEN NotParsed("Err")
    ELSE IF end - pos = 0 THEN NotParsed("panic")
    ELSE ParserResult("Ok", "DoubleEqual", FALSE, 0, chunks(pos, end, end - pos))

double_packet_va(buf, pos, end) ==
    Let(xiph_lacing_u16(buf, pos, end),
        LAMBDA l :
          IF l.st # "Ok" THEN NotParsed(l.st)
          ELSE IF l.v + l.off > end - pos THEN NotParsed("Err")
          ELSE ParserResult("Ok", "DoubleVary", TRUE, 0,
                      <<[off |-> pos + l.off, len |-> l.v],
                        [off |-> pos + l.off + l.v, len |-> end - pos - l.off - l.v]>>))

\* for i in 0..count - 1 { xiph_lacing_u16(b)?; b = &b[off..]; lens.push(len) },
\* n turns left: [st, pos, lens]
RECURSIVE vbr_lens(_, _, _, _, _)
vbr_lens(buf, pos, end, n, lens) ==
    IF n = 0 THEN [st |-> "Ok", pos |-> pos, lens |-> lens]
    ELSE Let(xiph_lacing_u16(buf, pos, end),
             LAMBDA l :
               IF l.st # "Ok" THEN [st |-> l.st, pos |-> pos, lens |-> lens]
               ELSE vbr_lens(buf, pos + l.off, end, n - 1, Append(lens, l.v)))

\* for len in lens.iter() { b.split_at(*len); push; b = rem }: split_at
\* panics past the end; [st, frames]
RECURSIVE vbr_frames(_, _, _, _)
vbr_frames(pos, end, lens, frames) ==
    IF lens = <<>> THEN [st |-> "Ok", frames |-> frames]
    ELSE IF Head(lens) > end - pos THEN [st |-> "panic", frames |-> frames]
    ELSE vbr_frames(pos + Head(lens), end, Tail(lens),
                    Append(frames, [off |-> pos, len |-> Head(lens)]))

\* multiple_packet after the padding: the frames of &buf[pos .. end]
multiple_frames(buf, pos, end, vbr, count, padding) ==
    IF vbr
    THEN Let(vbr_lens(buf, pos, end, count - 1, <<>>),
             LAMBDA l :
               IF l.st # "Ok" THEN NotParsed(l.st)
               ELSE Let(vbr_frames(l.pos, end, l.lens, <<>>),
                        LAMBDA f :
                          IF f.st # "Ok" THEN NotParsed(f.st)
                          ELSE ParserResult("Ok", "Multiple", TRUE, padding, f.frames)))
    ELSE IF ((end - pos) \div count) * count # end - pos
            \/ (end - pos) \div count > MAX_FRAME_SIZE
         THEN NotParsed("Err")
         ELSE IF (end - pos) \div count = 0 THEN NotParsed("panic")
         ELSE ParserResult("Ok", "Multiple", FALSE, padding, chunks(pos, end, (end - pos) \div count))

\* multiple_packet: buf[0] of an empty slice panics, and so does the slice
\* 1 + off .. buf.len() - pad when the padding does not fit
multiple_packet(buf, pos, end) ==
    IF pos >= end THEN NotParsed("panic")
    ELSE LET vbr == buf[pos + 1] \div 128 = 1
             count == buf[pos + 1] % 64
             padding == (buf[pos + 1] \div 64) % 2 = 1
         IN  IF count = 0 \/ count > MAX_FRAMES THEN NotParsed("Err")
             ELSE IF padding
                  THEN Let(xiph_lacing_u32(buf, pos + 1, end),
                           LAMBDA l :
                             IF l.st # "Ok" THEN NotParsed(l.st)
                             ELSE IF 1 + l.off + l.v > end - pos THEN NotParsed("panic")
                             ELSE multiple_frames(buf, pos + 1 + l.off, end - l.v,
                                                  vbr, count, l.v))
                  ELSE multiple_frames(buf, pos + 1, end, vbr, count, 0)

NoPkt ==
    [code |-> "none", vbr |-> FALSE, config |-> 0, stereo |-> FALSE, padding |-> 0,
     mode |-> "none", bandwidth |-> "none", frame_duration |-> 0, frames |-> <<>>]

\* Packet::from_slice: [st, p], st being "Ok", "Err" (InvalidData) or "panic"
from_slice(buf) ==
    IF Len(buf) < 1 THEN [st |-> "panic", p |-> NoPkt]
    ELSE LET code == buf[1] % 4
             config == (buf[1] \div 8) % 32
         IN  Let(CASE code = 0 -> single_packet(buf, 1, Len(buf))
                   [] code = 1 -> double_packet_es(buf, 1, Len(buf))
                   [] code = 2 -> double_packet_va(buf, 1, Len(buf))
                   [] code = 3 -> multiple_packet(buf, 1, Len(buf)),
                 LAMBDA r :
                   IF r.st # "Ok" THEN [st |-> r.st, p |-> NoPkt]
                   ELSE [st |-> "Ok",
                         p |-> [code |-> r.code, vbr |-> r.vbr, config |-> 0,
                                stereo |-> (buf[1] \div 4) % 2 = 1, padding |-> r.padding,
                                mode |-> Mode(config), bandwidth |-> Bandwidth(config),
                                frame_duration |-> FrameDuration(config),
                                frames |-> r.frames]])

\* the bytes of frame k of an accepted packet
frame_bytes(buf, f) == SubSeq(buf, f.off + 1, f.off + f.len)

MaxBody == 4         \* bytes behind the TOC byte
\* the bytes behind the TOC byte: frame counts 0, 1 and 2, a padded count,
\* VBR counts, a count above MAX_FRAMES that is also a long lacing byte
BodyVals == {0, 1, 2, 65, 129, 130, 255}
\* the TOC bytes followed by every body: CELT FB 20 ms mono, codes 0 to 3
TocVals == {248, 249, 250, 251}

RECURSIVE Bodies(_)
Bodies(n) ==
    IF n = 0 THEN {<<>>}
    ELSE LET shorter == Bodies(n - 1)
         IN  shorter \cup {Append(b, v) : b \in {x \in shorter : Len(x) = n - 1},
                                          v \in BodyVals}

\* the packets parsed: every TOC byte with at most one byte behind it, the
\* TOC bytes of TocVals with every body, and the slice of no bytes
SliceInputs ==
    {<<>>} \cup {<<t>> \o b : t \in 0..255, b \in Bodies(1)}
           \cup {<<t>> \o b : t \in TocVals, b \in Bodies(MaxBody)}

InitSlice ==
    /\ rd = NoDecoder /\ last = NoCall /\ ops = <<>> /\ panicked = FALSE
    /\ pc = "from_slice" /\ pkt = NoPacket /\ fi = 0
    /\ silk = Silk_new /\ celt = Celt_new
    /\ result = "none" /\ log = <<>> /\ npkts = 0
    /\ dec = Dec_new
    /\ smp = NoSilk
    /\ \E buf \in SliceInputs :
          fx = [fn |-> "from_slice", arg |-> buf, done |-> FALSE,
                out |-> [st |-> "none", p |-> NoPkt]]

FromSlice ==
    /\ pc = "from_slice" /\ fx.fn = "from_slice" /\ ~fx.done
    /\ \E out \in {from_slice(fx.arg)} :
          fx' = [fx EXCEPT !.done = TRUE, !.out = out]
    /\ FxOnly

(***************************************************************************)
(* What send_packet hands to Silk::setup and to Celt::decode for a packet  *)
(* from_slice accepted.                                                    *)
(***************************************************************************)
SHORT_BLOCKSIZE == 120

\* Bandwidth::celt_band
celt_band(bandwidth) ==
    CASE bandwidth = "Narrow" -> 13
      [] bandwidth \in {"Medium", "Wide"} -> 17
      [] bandwidth = "SuperWide" -> 19
      [] bandwidth = "Full" -> 21

\* the arm the first match of Silk::setup takes
setup_arm(frame_duration) ==
    IF frame_duration \in {480, 960, 1920, 2880} THEN "frames" ELSE "unreachable"

\* the band range of send_packet and the lm Celt::decode derives
celt_args(p) ==
    [start |-> IF p.mode = "HYBRID" THEN 17 ELSE 0, end |-> celt_band(p.bandwidth),
     lm |-> ilogN(p.frame_duration \div SHORT_BLOCKSIZE) - 1]

NotHanded == [start |-> 0, end |-> 0, lm |-> 0]

\* send_packet from the accepted packet to the calls of the sub-decoders
HandOver ==
    /\ pc = "from_slice" /\ fx.fn = "from_slice" /\ fx.done /\ fx.out.st = "Ok"
    /\ fx' = [fn |-> "send_packet", arg |-> fx.arg, done |-> TRUE, out |-> fx.out,
              silk_setup |-> IF fx.out.p.mode # "CELT"
                             THEN setup_arm(fx.out.p.frame_duration) ELSE "none",
              celt_decode |-> IF fx.out.p.mode # "SILK"
                              THEN celt_args(fx.out.p) ELSE NotHanded]
    /\ FxOnly

NextSlice ==
    \/ FromSlice
    \/ HandOver

SpecSlice == InitSlice /\ [][NextSlice]_vars

(***************************************************************************)
(* send_packet on a CELT packet behind SILK packets: the Silk of           *)
(* Silk::decode, flushed once for every frame of the packet.               *)
(***************************************************************************)
\* Silk::flush
Silk_flush(s) ==
    [s EXCEPT !.mid_frame = SilkFrame_flush(@), !.side_frame = SilkFrame_flush(@),
              !.info.prev0 = 0, !.info.prev1 = 0]

\* celt.decode on the frames of a CELT packet, one after the other until one
\* does not return: [st, n], n frames begun
RECURSIVE celt_frames(_, _, _, _)
celt_frames(buf, frames, c, n) ==
    IF frames = <<>> THEN [st |-> "returned", n |-> n]
    ELSE (CHOOSE chosen \in {(
               IF r.status # "returned" THEN [st |-> r.status, n |-> n + 1]
               ELSE celt_frames(buf, Tail(frames), c, n + 1)) : r \in {(
             celt_decode(RangeDecoder_new(frame_bytes(buf, Head(frames))), c))}} : TRUE)

\* the CELT packets sent, FB 20 ms mono: code 3 with VBR and a frame count
\* of 1, code 0 with a frame of three bytes, code 3 with two frames of two
\* bytes
CeltPackets == {<<251, 129>>, <<248, 255, 255, 255>>, <<251, 2, 255, 255, 255, 255>>}

\* from_slice, celt.setup and the calls of celt.decode for the packets sent,
\* which do not depend on the Silk: [st, n]
CeltRuns ==
    [a \in CeltPackets \X {"debug", "release"} |->
        (CHOOSE chosen \in {(
              IF q.st # "Ok" \/ q.p.mode # "CELT" THEN [st |-> q.st, n |-> 0]
              ELSE celt_frames(a[1], q.p.frames,
                               [lm |-> celt_args(q.p).lm, stereo |-> q.p.stereo,
                                start |-> celt_args(q.p).start,
                                end |-> celt_args(q.p).end, build |-> a[2]], 0)) : q \in {(
            from_slice(a[1]))}} : TRUE)]

\* silk.flush(), once for every frame begun
RECURSIVE flush_frames(_, _)
flush_frames(s, n) == IF n = 0 THEN s ELSE flush_frames(Silk_flush(s), n - 1)

\* Silk::setup on the Silk of Silk::decode
setup_samples(s, config, stereo) ==
    Let(Silk_setup(Silk_new, Packet(config, stereo, <<>>), 0),
        LAMBDA k :
          [s EXCEPT !.stereo = k.stereo, !.frames = k.frames,
                    !.info.bandwidth = k.bandwidth,
                    !.info.subframes = k.subframes,
                    !.info.sf_size = k.f_size \div k.subframes,
                    !.info.f_size = k.f_size,
                    !.left_outbuf = Resize(@, k.f_size * k.frames),
                    !.right_outbuf = Resize(@, k.f_size * k.frames)])

\* the body of the loop of Silk::decode for frame s.i; in = [y, mo, xm, xs]:
\* the symbols of the stereo weights, the mid-only flag, what the two
\* parses decode
decode_frame(s, in) ==
    Let(IF s.stereo
        THEN [s EXCEPT !.info.weight0 = stereo_weights(in.y)[1],
                       !.info.weight1 = stereo_weights(in.y)[2],
                       !.midonly = in.mo]
        ELSE [s EXCEPT !.midonly = FALSE],
        LAMBDA w :
          Let([w EXCEPT !.mid_frame =
                            SilkFrame_parse_samples(@, w.info, w.mid_vad[w.i + 1], w.i = 0,
                                                    in.xm)],
              LAMBDA m :
                Let(IF m.stereo /\ ~m.midonly
                    THEN [m EXCEPT !.side_frame =
                                       SilkFrame_parse_samples(@, m.info, m.side_vad[m.i + 1],
                                                               m.i = 0, in.xs)]
                    ELSE IF m.midonly THEN [m EXCEPT !.side_frame = SilkFrame_flush(@)]
                    ELSE m,
                    LAMBDA d : [mixdown(d) EXCEPT !.i = d.i + 1])))

\* the loop of Silk::decode over the frames, ins holding one input a frame
RECURSIVE decode_frames(_, _)
decode_frames(s, ins) ==
    IF ins = <<>> THEN s
    ELSE Let(decode_frame(s, Head(ins)), LAMBDA t : decode_frames(t, Tail(ins)))

\* the SILK packets sent: NB 10 ms, one SILK frame
SilkPacketConfigs == {0}

\* the inputs of a frame the flags allow: midonly only in a stereo packet
\* whose side frame is inactive
FrameInputs(stereo, mvad, svad) ==
    {[y |-> y, mo |-> mo, xm |-> xm, xs |-> xs] :
        y \in IF stereo THEN WeightSyms ELSE {<<>>},
        mo \in IF stereo /\ ~svad THEN BOOLEAN ELSE {FALSE},
        xm \in ParseInputsFor(mvad),
        xs \in IF stereo THEN ParseInputsFor(svad) ELSE {[type |-> 0]}}

\* Silk::new, with the runs of celt.decode at hand in fx
InitFlush ==
    /\ rd = NoDecoder /\ last = NoCall /\ ops = <<>> /\ panicked = FALSE
    /\ pc = "silk" /\ pkt = NoPacket /\ fi = 0
    /\ silk = Silk_new /\ celt = Celt_new
    /\ result = "none" /\ log = <<>> /\ npkts = 0
    /\ dec = Dec_new
    /\ \E stereo_out \in BOOLEAN : smp = Silk_samples_new(stereo_out)
    /\ fx = [fn |-> "celt_runs", runs |-> CeltRuns]

\* send_packet on a SILK packet of one frame that Silk::decode returns from:
\* silk.setup and silk.decode
SendSilkPacket ==
    /\ smp.pc = "idle" /\ smp.ndec < MaxDecodes
    /\ \E config \in SilkPacketConfigs, stereo \in BOOLEAN, mvad \in BOOLEAN, svad \in BOOLEAN :
          /\ stereo \/ ~svad
          /\ \E in \in FrameInputs(stereo, mvad, svad) :
                \E s \in {decode_frames([setup_samples(smp, config, stereo) EXCEPT
                                             !.i = 0,
                                             !.mid_vad = <<mvad, FALSE, FALSE>>,
                                             !.side_vad = <<svad, FALSE, FALSE>>,
                                             !.midonly = FALSE],
                                         <<in>>)} :
                   smp' = [s EXCEPT !.pc = "idle", !.step = "silk", !.events = <<>>,
                                    !.ndec = @ + 1]
    /\ SilkOnly

\* send_packet on a CELT packet: for every frame RangeDecoder::new,
\* silk.flush() and celt.decode
SendCeltPacket ==
    /\ smp.pc = "idle" /\ smp.step # "celt"
    /\ \E a \in DOMAIN fx.runs :
          /\ fx.runs[a].st \in {"returned", "panic"}
          /\ smp' = [flush_frames(smp, fx.runs[a].n) EXCEPT
                         !.pc = IF fx.runs[a].st = "returned" THEN "idle" ELSE "panic",
                         !.step = "celt",
                         !.events = <<<<"celt.decode", fx.runs[a].n>>>>]
    /\ SilkOnly

NextFlush ==
    \/ SendSilkPacket
    \/ SendCeltPacket

SpecFlush == InitFlush /\ [][NextFlush]_vars

(***************************************************************************)
(* Observations of the two cursors.                                        *)
(***************************************************************************)
DecodeOps == {"decode_logp", "decode_icdf", "decode_uniform", "decode_laplace"}
\* bits the arithmetic reader has handed out (the reader's consumed())
HeadBits(d) == d.bits.index * 8 - d.bits.left
\* the arithmetic cursor is past the last byte of the frame
PastEnd(d) == HeadBits(d) >= 8 * Len(d.buf)
\* bytes of the frame the arithmetic reader has taken bits from
HeadBytes(d) == Min(Len(d.buf), (HeadBits(d) + 7) \div 8)
\* bits, and bytes of the frame, the raw-bit reader has handed out
TailBits(d) == d.revs.index * 8 - d.revs.left
TailBytes(d) == Min(Len(d.buf), (TailBits(d) + 7) \div 8)
CursorsMet(d) == HeadBytes(d) + TailBytes(d) >= Len(d.buf)

(***************************************************************************)
(* Range decoder claims.                                                   *)
(***************************************************************************)

\* C1: after RangeDecoder::new and after every decode_logp, decode_icdf,
\* decode_uniform and decode_laplace call, CODE_BOT < range <= CODE_TOP and
\* value < range.
C1_RangeInvariant ==
    /\ Lt(CODE_BOT, rd.range)
    /\ Leq(rd.range, CODE_TOP)
    /\ Lt(rd.value, rd.range)
\* a decode call has left range at or below CODE_BOT and normalize restored it
C1_Witness ==
    /\ last.op \in DecodeOps
    /\ Leq(last.upd.range, CODE_BOT)
    /\ ~panicked

\* C2: tell() <= 8 * packet_len + 1 after construction and after every
\* decode operation, also once the arithmetic cursor is past the end.
C2_TellBound == tell(rd) <= 8 * Len(rd.buf) + 1

\* C3: rawbits never returns bits of a byte the arithmetic reader has
\* consumed: the tail cursor and the head cursor never cross, and once they
\* have met rawbits returns 0.  (That available() is then 0 is a further
\* consequence, not needed to refute the claim.)
C3_CursorsNeverCross ==
    /\ HeadBytes(rd) + TailBytes(rd) <= Len(rd.buf)
    /\ (last.op = "rawbits" /\ CursorsMet(last.pre)) => last.ret = 0

\* C4: after to_end(), available() == 0, and further decode_icdf calls
\* complete without unsigned underflow.
C4_ToEndLeavesNothing ==
    /\ last.op = "to_end" =>
           (~panicked /\ ~available_underflows(rd) /\ available(rd) = 0)
    /\ ((\E i \in 1..Len(ops) : ops[i][1] = "to_end") /\ last.op = "decode_icdf") => ~panicked

C6_DecodeIcdfSymbol ==
    last.op = "decode_icdf" =>
        LET total == ICDFS[last.arg[1]].total
            dist == ICDFS[last.arg[1]].dist
            pre == last.pre
            i == last.ret + 1
            scale == DivSmall(pre.range, total)
            k == total - Min(Quot(pre.value, scale) + 1, total)
            high == dist[i]
            low == IF i > 1 THEN dist[i - 1] ELSE 0
            s == MulSmall(scale, total - high)
        IN  /\ i \in 1..Len(dist)
            /\ dist[i] > k
            /\ \A j \in 1..(i - 1) : ~(dist[j] > k)
            /\ last.upd.value = Sub(pre.value, s)
            /\ last.upd.range = IF low > 0 THEN MulSmall(scale, high - low)
                                ELSE Sub(pre.range, s)
            /\ rd = normalize(last.upd)
\* decode_icdf returned a symbol other than the first of its context
C6_Witness ==
    /\ last.op = "decode_icdf"
    /\ last.ret > 0
    /\ ~panicked

\* C7: decode_uniform(n) returns r with 0 <= r < n, also when n - 1 needs
\* more than 8 bits and the low bits come from rawbits.
C7_UniformInRange ==
    last.op = "decode_uniform" => (last.ret >= 0 /\ last.ret < last.arg[1])

(***************************************************************************)
(* send_packet claims.                                                     *)
(***************************************************************************)
\* the steps of send_packet among the events, and their place in a frame
Steps == {"silk.setup", "celt.setup", "silk.decode", "silk.flush", "probe", "celt.decode"}
Rank(e) ==
    IF e.ev = "silk.setup" THEN 0
    ELSE IF e.ev = "celt.setup" THEN 1
    ELSE IF e.ev \in {"silk.decode", "silk.flush"} THEN 2 + 3 * (e.frame + 1)
    ELSE IF e.ev = "probe" THEN 3 + 3 * (e.frame + 1)
    ELSE 4 + 3 * (e.frame + 1)
StepsInOrder ==
    \A i \in 1..Len(log) : \A j \in (i + 1)..Len(log) :
        (log[i].ev \in Steps /\ log[j].ev \in Steps) => Rank(log[i]) < Rank(log[j])
\* the sub-decoder that decodes a frame was set up for the packet being decoded
DecodedAfterSetup ==
    \A i \in 1..Len(log) :
        log[i].ev \in {"silk.decode", "celt.decode"} => log[i].info[1] = npkts

\* C8: send_packet runs SILK setup, then CELT setup, then for each frame in
\* order SILK parse, redundancy probe, CELT parse; no frame is decoded by a
\* sub-decoder that was not set up for this packet.
C8_SetupThenFrames == StepsInOrder /\ DecodedAfterSetup

\* the LBRR flag Silk::decode read on the current frame: the flag follows the
\* VAD flags of the channel, the side channel's follow the mid channel's
MidLbrr ==
    /\ pkt.mode \in {"SILK", "HYBRID"}
    /\ Len(ops) >= silk.frames + 1
    /\ ops[silk.frames + 1] = <<"decode_logp", TRUE>>
SideLbrr ==
    /\ pkt.mode \in {"SILK", "HYBRID"}
    /\ silk.stereo
    /\ ~MidLbrr
    /\ Len(ops) >= 2 * silk.frames + 2
    /\ ops[2 * silk.frames + 2] = <<"decode_logp", TRUE>>
\* Silk::decode has returned without parsing a SILK frame, and with it
\* send_packet
RejectedBeforeParse ==
    /\ pc = "done"
    /\ log[Len(log)].ev = "silk.decode"
    /\ log[Len(log)].frame = fi

\* C9 as stated: if the LBRR flag of the mid channel, or for a stereo packet
\* of the side channel, is set, Silk::decode returns an error before parsing
\* any SILK frame and send_packet fails the whole packet with InvalidData.
C9_LbrrInvalidData ==
    (MidLbrr \/ SideLbrr) => (RejectedBeforeParse /\ result = "InvalidData")

\* C9: if the LBRR flag of the mid channel, or for a stereo packet of the side
\* channel, is set, Silk::decode returns an error before parsing any SILK
\* frame and send_packet fails the whole packet with Unsupported.
C9_LbrrUnsupported ==
    (MidLbrr \/ SideLbrr) => (RejectedBeforeParse /\ result = "Unsupported")
\* the side channel's LBRR flag of the second frame of a packet was set, and
\* the packet rejected
C9_Witness ==
    /\ SideLbrr
    /\ fi = 1
    /\ pc = "done"
    /\ result = "Unsupported"

\* the probe of frame f signalled a redundancy frame at least as large as
\* the frame
OversizedRedundancy(e) ==
    /\ e.ev = "probe"
    /\ e.info[1]
    /\ e.info[2] >= Len(pkt.frames[e.frame + 1])

\* C10: if a redundancy frame is signalled for a frame and its size is
\* greater than or equal to the frame's size in bytes, send_packet returns
\* Err(InvalidData) and performs no CELT decode for that frame or for any
\* later frame of the packet.
C10_OversizedRedundancyRejected ==
    \A i \in 1..Len(log) :
        OversizedRedundancy(log[i]) =>
            /\ pc = "done"
            /\ result = "InvalidData"
            /\ \A j \in (i + 1)..Len(log) : log[j].ev # "celt.decode"
            /\ fi = log[i].frame
\* the second frame of a packet signalled a redundancy frame of exactly the
\* frame's size, after the first frame was CELT-decoded, and the packet was
\* rejected
C10_Witness ==
    /\ pc = "done"
    /\ result = "InvalidData"
    /\ fi = 1
    /\ log[Len(log)].ev = "probe"
    /\ log[Len(log)].info = <<TRUE, Len(pkt.frames[2])>>
    /\ \E j \in 1..Len(log) : log[j].ev = "celt.decode"

(***************************************************************************)
(* configure claims.                                                       *)
(***************************************************************************)
ConfigureErrors == {"ConfigurationIncomplete", "ConfigurationInvalid"}

\* configure has just returned an error, or panicked
ConfigureFailed == ~dec.called /\ dec'.called /\ dec'.result # "Ok"

\* C11: configure returns ConfigurationIncomplete when no extradata has been
\* set and ConfigurationInvalid when the channel count exceeds 2; in both
\* cases it returns the error rather than panicking, and it leaves silk and
\* celt as they were (None on a Dec that was never configured).
C11_ConfigureErrors ==
    /\ [](dec.called =>
            /\ dec.extradata = None => dec.result = "ConfigurationIncomplete"
            /\ (dec.extradata # None /\ channels_of(dec.extradata[1]) > 2) =>
                   (dec.result = "ConfigurationInvalid" /\ ~panicked))
    /\ [][ConfigureFailed => (dec'.silk = dec.silk /\ dec'.celt = dec.celt)]_vars

(***************************************************************************)
(* SilkFrame::flush, SilkFrame::parse and Silk::decode, sample by sample.  *)
(***************************************************************************)
\* the side frame has just been flushed
Flushed == smp.pc # "none" /\ smp.step = "side.flush"

\* C12: after SilkFrame::flush every field of the frame (frame_type,
\* log_gain, coded, prev_voiced, previous_lag, nlsfs, lpc, interpolated_lpc,
\* interpolated, interp_factor4, output, lpc_history) has the value it has in
\* a newly constructed SilkFrame, output and lpc_history being 2 * LPC_HISTORY
\* long.
C12_FlushResetsEveryField ==
    Flushed =>
        /\ smp.side_frame = SilkFrame_new
        /\ Len(smp.side_frame.output) = 2 * LPC_HISTORY
        /\ Len(smp.side_frame.lpc_history) = 2 * LPC_HISTORY

\* a frame has just been parsed
Parsed == smp.pc # "none" /\ smp.step \in {"mid.parse", "side.parse"}
ParsedFrame == IF smp.step = "mid.parse" THEN smp.mid_frame ELSE smp.side_frame

\* C13 as stated: after SilkFrame::parse, for every i in [0, LPC_HISTORY),
\* output[i] is what output[i + f_size] held before the parse.
C13_HistoryIsOldOutput ==
    Parsed =>
        \A i \in 0..(LPC_HISTORY - 1) :
            ParsedFrame.output[i + 1] = smp.before.output[i + smp.info.f_size + 1]

\* C13: after SilkFrame::parse, output[i] is what output[i + f_size] held
\* before the parse for every i in [0, LPC_HISTORY - f_size), and the sample
\* this parse synthesized at place i + f_size - LPC_HISTORY of the frame,
\* clamped to [-1, 1], for every i in [LPC_HISTORY - f_size, LPC_HISTORY).
C13_HistorySlidByFrame ==
    Parsed =>
        \A i \in 0..(LPC_HISTORY - 1) :
            ParsedFrame.output[i + 1] =
                IF i < LPC_HISTORY - smp.info.f_size
                THEN smp.before.output[i + smp.info.f_size + 1]
                ELSE Clamp(Wave(smp.x.wave, i + smp.info.f_size - LPC_HISTORY), UNIT)

\* a parse of a frame parsed before, with sound before and sound now
C13_Witness ==
    /\ Parsed /\ smp.before.coded /\ smp.x.wave # 0
    /\ \E i \in 0..(LPC_HISTORY - smp.info.f_size - 1) :
          /\ smp.before.output[i + smp.info.f_size + 1] # 0
          /\ ParsedFrame.output[i + 1] # 0

\* the mixdown of a mid-only frame of a stereo packet decoded to stereo
MidOnlyMix == smp.pc = "mix" /\ smp.stereo /\ smp.stereo_out /\ smp.midonly
\* the places of frame s.i in the output buffers
FrameRange(s) == (s.i * s.info.f_size + 1)..((s.i + 1) * s.info.f_size)

\* C14 as stated: a mid-only frame of a SILK-only stereo packet decoded with
\* stereo output yields left samples identical to the right samples.
C14_MidOnlyLeftIsRight ==
    [][MidOnlyMix =>
          \A j \in FrameRange(smp) : smp'.left_outbuf[j] = smp'.right_outbuf[j]]_vars

\* the side predicted from the mid at place t of the frame, times OUT_DEN:
\* interp1 * m1 + interp0 * p0 of unmix_ms
side_prediction(s, t) ==
    LET info == s.info
        in_start == LPC_HISTORY - info.f_size
        n1 == interp_len(info.bandwidth)
        m0 == s.mid_frame.output[in_start - 2 + t + 1]
        m1 == s.mid_frame.output[in_start - 2 + t + 2]
        m2 == s.mid_frame.output[in_start - 2 + t + 3]
        w0 == IF t < n1 THEN info.prev0 * n1 + t * (info.weight0 - info.prev0)
              ELSE info.weight0 * n1
        w1 == IF t < n1 THEN info.prev1 * n1 + t * (info.weight1 - info.prev1)
              ELSE info.weight1 * n1
    IN  (384 \div n1) * (w1 * 4 * m1 + w0 * (m0 + 2 * m1 + m2))

\* C14: a mid-only frame of a SILK-only stereo packet decoded with stereo
\* output is unmixed with a silent side frame: left is the mid sample less
\* the side predicted from the mid by the stereo weights, right is the mid
\* sample plus that prediction, both clamped; left and right are identical
\* wherever the prediction is zero, as it is when the stereo weights of the
\* frame and of the frame before are zero.
C14_MidOnlyUnmixesMidAlone ==
    [][MidOnlyMix =>
          /\ \A j \in FrameRange(smp) :
                LET t == j - smp.i * smp.info.f_size - 1
                    m1 == smp.mid_frame.output[LPC_HISTORY - smp.info.f_size + t]
                IN  /\ smp'.left_outbuf[j] =
                           Clamp(OUT_DEN * m1 - side_prediction(smp, t), UNIT * OUT_DEN)
                    /\ smp'.right_outbuf[j] =
                           Clamp(OUT_DEN * m1 + side_prediction(smp, t), UNIT * OUT_DEN)
          /\ (smp.info.weight0 = 0 /\ smp.info.weight1 = 0
              /\ smp.info.prev0 = 0 /\ smp.info.prev1 = 0) =>
                \A j \in FrameRange(smp) : smp'.left_outbuf[j] = smp'.right_outbuf[j]]_vars

\* a mid-only frame mixed down after a frame whose side was parsed, left and
\* right differing
C14_Witness ==
    /\ smp.pc # "none" /\ smp.step = "mix"
    /\ smp.stereo /\ smp.stereo_out /\ smp.midonly
    /\ <<"side.parse", 0>> \in {smp.events[k] : k \in 1..Len(smp.events)}
    /\ \E j \in FrameRange([smp EXCEPT !.i = smp.i - 1]) :
          smp.left_outbuf[j] # smp.right_outbuf[j]

\* the steps of frame k of the packet decoded last, in the order taken
FrameSteps(k) ==
    LET es == SelectSeq(smp.events, LAMBDA e : e[2] = k)
    IN  [j \in 1..Len(es) |-> es[j][1]]
IsPrefix(a, b) == Len(a) <= Len(b) /\ \A j \in 1..Len(a) : a[j] = b[j]
\* the orders of a frame's steps
FrameOrders ==
    IF smp.stereo
    THEN {<<"stereo_weight", "mid.parse", "side.parse", "mix">>,
          <<"stereo_weight", "mid.parse", "side.flush", "mix">>}
    ELSE {<<"mid.parse", "mix">>}
Has(seq, x) == \E j \in 1..Len(seq) : seq[j] = x

\* C20: Silk::decode takes each frame through the stereo weights (stereo
\* packets only), mid_frame.parse, side_frame.parse (skipped when mid-only
\* was selected) and the mixdown, in this order, frame after frame; when
\* mid-only is set for a frame the side frame is flushed before the mixdown
\* of that frame reads it.
C20_FrameOrder ==
    smp.pc \in {"weight", "mid", "side", "flush", "mix", "idle"} =>
        /\ \A k \in 0..2 : \E o \in FrameOrders : IsPrefix(FrameSteps(k), o)
        /\ \A j \in 1..Len(smp.events) : \A k \in 1..Len(smp.events) :
              j < k => smp.events[j][2] <= smp.events[k][2]
        /\ \A k \in 0..2 : (k < smp.i) <=> Has(FrameSteps(k), "mix")
        /\ (smp.pc \in {"side", "flush", "mix"} /\ smp.midonly) =>
              ~Has(FrameSteps(smp.i), "side.parse")
        /\ (smp.pc = "mix" /\ smp.midonly) =>
              /\ Has(FrameSteps(smp.i), "side.flush")
              /\ ~smp.side_frame.coded
              /\ smp.side_frame.output = ZeroVec(2 * LPC_HISTORY)
        /\ (smp.pc = "mix" /\ smp.stereo /\ ~smp.midonly) =>
              Has(FrameSteps(smp.i), "side.parse")

\* a stereo packet of two frames decoded to its end: the side parsed in the
\* first frame, flushed in the second
C20_Witness ==
    /\ smp.pc = "idle" /\ smp.step = "mix" /\ smp.stereo /\ smp.frames = 2
    /\ FrameSteps(0) = <<"stereo_weight", "mid.parse", "side.parse", "mix">>
    /\ FrameSteps(1) = <<"stereo_weight", "mid.parse", "side.flush", "mix">>

(***************************************************************************)
(* The ICDF contexts.                                                      *)
(***************************************************************************)
\* the context the last call of decode_icdf was passed
Passed == DecoderIcdfs[last.arg[1]]
StrictlyIncreasing(dist) == \A i \in 1..(Len(dist) - 1) : dist[i] < dist[i + 1]
NonDecreasing(dist) == \A i \in 1..(Len(dist) - 1) : dist[i] <= dist[i + 1]

\* C15 as stated: every ICDF context the SILK and CELT decoders pass to
\* decode_icdf has a strictly increasing dist whose last element is total.
C15_DistStrictlyIncreasing ==
    (pc = "icdf" /\ last.op = "decode_icdf") =>
        /\ StrictlyIncreasing(Passed.dist)
        /\ Passed.dist[Len(Passed.dist)] = Passed.total

\* C15: every ICDF context the SILK and CELT decoders pass to decode_icdf has
\* a non-decreasing dist of positive entries whose last element is total; dist
\* is strictly increasing but in PULSE_COUNT[10], whose last two entries are
\* both 256 (its last symbol has no probability).
C15_DistNonDecreasing ==
    (pc = "icdf" /\ last.op = "decode_icdf") =>
        /\ NonDecreasing(Passed.dist)
        /\ Passed.dist[1] > 0
        /\ Passed.dist[Len(Passed.dist)] = Passed.total
        /\ Passed.name # "PULSE_COUNT[10]" => StrictlyIncreasing(Passed.dist)
        /\ Passed.name = "PULSE_COUNT[10]" =>
              /\ StrictlyIncreasing(SubSeq(Passed.dist, 1, Len(Passed.dist) - 1))
              /\ Passed.dist[Len(Passed.dist) - 1] = Passed.dist[Len(Passed.dist)]

\* a symbol decoded from PULSE_COUNT[10]
C15_Witness ==
    /\ pc = "icdf" /\ last.op = "decode_icdf" /\ ~panicked
    /\ Passed.name = "PULSE_COUNT[10]"
    /\ last.ret > 0

(***************************************************************************)
(* cwrsi and extract_collapse_mask.                                        *)
(***************************************************************************)
RECURSIVE SumAbs(_)
SumAbs(y) ==
    IF y = <<>> THEN 0
    ELSE (IF Head(y) < 0 THEN -Head(y) ELSE Head(y)) + SumAbs(Tail(y))
RECURSIVE SumSq(_)
SumSq(y) == IF y = <<>> THEN 0 ELSE Head(y) * Head(y) + SumSq(Tail(y))

\* C17: for n >= 2, k >= 1 and every index i in [0, V(n, k)), cwrsi(n, k, i,
\* y) writes n integers whose absolute values sum to k and returns the sum of
\* their squares; for n = 8, k = 22, i = 68441748 it writes
\* [0, 0, -1, -1, 4, 8, -4, 4] and returns 114.
C17_CwrsiPulses ==
    (fx.fn = "cwrsi" /\ fx.done) =>
        /\ ~fx.out.panic
        /\ Len(fx.out.y) = fx.arg[1]
        /\ SumAbs(fx.out.y) = fx.arg[2]
        /\ fx.out.norm = SumSq(fx.out.y)
        /\ fx.arg = <<8, 22, 68441748>> =>
              (fx.out.y = <<0, 0, -1, -1, 4, 8, -4, 4>> /\ fx.out.norm = 114)

\* bit i of mask
Bit(mask, i) == (mask \div (2 ^ i)) % 2
\* block i of the b blocks of y: Len(y) / b places each, one after the other
Block(y, b, i) == SubSeq(y, i * (Len(y) \div b) + 1, (i + 1) * (Len(y) \div b))

\* C18: for b > 1, extract_collapse_mask(y, b) is a mask below 2^b whose bit i
\* is set exactly when block i of the b blocks of y holds a non-zero pulse; for
\* b <= 1 it is 1; [0, 0, 1, -1, 4, 8, -4, 4] with b = 8 gives 252 and
\* [1, -2, 0, -2, 0, 2, 0, 0, 0, 1, 1, 0, 1, 1, -1, 0] with b = 4 gives 15.
C18_CollapseMask ==
    (fx.fn = "extract_collapse_mask" /\ fx.done) =>
        LET y == fx.arg[1]
            b == fx.arg[2]
        IN  /\ b <= 1 => fx.out = 1
            /\ b > 1 =>
                  /\ fx.out >= 0 /\ fx.out < 2 ^ b
                  /\ \A i \in 0..(b - 1) :
                        Bit(fx.out, i) = 1 <=>
                            \E j \in 1..Len(Block(y, b, i)) : Block(y, b, i)[j] # 0
            /\ fx.arg = <<<<0, 0, 1, -1, 4, 8, -4, 4>>, 8>> => fx.out = 252
            /\ fx.arg = <<<<1, -2, 0, -2, 0, 2, 0, 0, 0, 1, 1, 0, 1, 1, -1, 0>>, 4>> =>
                  fx.out = 15

(***************************************************************************)
(* C19: lsf_to_lpc is a fixed-point function of the NLSF vector: it ends   *)
(* without a panic with ORDER coefficients, each an i16 integer that the   *)
(* source divides by 4096, and for the NB/MB vector of the source's test   *)
(* the coefficients times 4096 are 5041, -1246, 1017, -614, 431, -560,     *)
(* 131, -357, 284, -46.                                                    *)
(***************************************************************************)
Converted == pc = "lsf" /\ fx.fn = "lsf_to_lpc" /\ fx.done

C19_LsfToLpcQ12 ==
    Converted =>
        /\ ~fx.out.panic
        /\ Len(fx.out.lpc) = fx.order
        /\ \A i \in 1..fx.order : fx.out.lpc[i] \in -32768..32767
        /\ (fx.arg = TestVector /\ fx.order = NB_MB_ORDER) =>
              fx.out.lpc = <<5041, -1246, 1017, -614, 431, -560, 131, -357, 284, -46>>

C19_Witness ==
    Converted /\ fx.arg = TestVector /\ fx.order = NB_MB_ORDER /\ fx.out.lpc[1] = 5041

(***************************************************************************)
(* C16: after decode_allocation, for every range-decoder state, every lm   *)
(* in 0..3, mono or stereo, and every band range: pulses[i] >= 0 and       *)
(* 0 <= fine_bits[i] <= 8 for every band i of the range, and               *)
(* codedband <= band.end.                                                  *)
(***************************************************************************)
Allocated == pc = "alloc" /\ fx.done /\ fx.out.status = "returned"
C16_AllocationBounds ==
    Allocated =>
        /\ \A i \in (fx.arg.start)..(fx.arg.end - 1) :
              /\ fx.out.pulses[i + 1] >= 0
              /\ 0 <= fx.out.fine_bits[i + 1]
              /\ fx.out.fine_bits[i + 1] <= MAX_FINE_BITS
        /\ fx.out.codedband <= fx.arg.end

(***************************************************************************)
(* C21: in Celt::decode, once the silence flag is decoded as set (or no    *)
(* bits are available) and to_end() has run, available() is 0 and for the  *)
(* rest of the frame no arithmetic symbol and no raw bit is consumed: the  *)
(* decoder at the end of the decode is the decoder right after to_end().   *)
(***************************************************************************)
SilentFrame == fx.fn = "celt_decode" /\ fx.done /\ fx.out.silence /\ fx.out.stage # "silence"

C21_SilenceReadsNothing ==
    SilentFrame => available(fx.out.ended) = 0 /\ fx.out.rd = fx.out.ended

(***************************************************************************)
(* C25: on every decoder state tell_frac() completes without an arithmetic *)
(* or shift overflow and agrees with tell() to an eighth of a bit:         *)
(* 8 * (tell() - 1) < tell_frac() <= 8 * tell().                           *)
(***************************************************************************)
C25_TellFracAgrees ==
    (fx.fn = "tell_frac" /\ fx.done) =>
        /\ ~fx.out.frac.panic /\ ~fx.out.frac.big
        /\ ULt(8 * (fx.out.tell - 1), fx.out.frac.v)
        /\ ULeq(fx.out.frac.v, 8 * fx.out.tell)

(***************************************************************************)
(* C22: for every NLSF vector of ORDER values in 0..32767, stabilize ends  *)
(* after at most 20 adjustment passes plus one sort and two sweeps, and    *)
(* its output keeps every minimum spacing: nlsf[0] >= MIN_SPACING[0],      *)
(* nlsf[i] - nlsf[i-1] >= MIN_SPACING[i] for 0 < i < ORDER, and            *)
(* 32768 - nlsf[ORDER-1] >= MIN_SPACING[ORDER].                            *)
(***************************************************************************)
C22_StabilizeSpacing ==
    (fx.fn = "stabilize" /\ fx.done) =>
        /\ fx.out.st = "done"
        /\ fx.out.passes <= 20
        /\ \A i \in 1..(fx.arg.order + 1) : spacing_diffs(fx.out.n, fx.arg.order)[i] >= 0

(***************************************************************************)
(* C23: for every shell block, parse_excitation makes at most 10 overflow  *)
(* draws after an initial pulse count of 17, draws 1 to 9 from the         *)
(* pulse-count context 9 and the 10th from context 10; lsbcount[shell] is  *)
(* the number of overflow draws, and the final pulse count is in 0..16.    *)
(***************************************************************************)
ExcitationParsed == fx.fn = "parse_excitation" /\ fx.done

C23_PulseCountOverflow ==
    ExcitationParsed =>
        /\ ~fx.out.panic
        /\ Len(fx.out.blocks) = fx.arg.shell_blocks
        /\ \A b \in 1..Len(fx.out.blocks) :
              LET blk == fx.out.blocks[b]
              IN  /\ blk.p \in 0..16
                  /\ blk.lsb = Len(blk.draws)
                  /\ Len(blk.draws) <= 10
                  /\ blk.first # 17 => blk.draws = <<>>
                  /\ blk.first = 17 => blk.draws # <<>>
                  /\ \A k \in 1..Len(blk.draws) : blk.draws[k] = IF k = 10 THEN 10 ELSE 9

\* a block that made all ten overflow draws, and one that made some of them
C23_Witness ==
    /\ ExcitationParsed /\ ~fx.out.panic
    /\ \E b \in 1..Len(fx.out.blocks) : fx.out.blocks[b].lsb = 10
    /\ \E b \in 1..Len(fx.out.blocks) : fx.out.blocks[b].lsb \in 1..9

(***************************************************************************)
(* C30: for every shell block, after the four-level location split and     *)
(* before the LSB extension and the signs, the 16 magnitudes are           *)
(* non-negative and sum to the block's decoded pulse count.                *)
(***************************************************************************)
C30_LocationSplit ==
    ExcitationParsed =>
        /\ ~fx.out.panic
        /\ \A b \in 1..Len(fx.out.blocks) :
              /\ Len(fx.out.blocks[b].split) = 16
              /\ \A i \in 1..16 : fx.out.blocks[b].split[i] >= 0
              /\ SumOver(fx.out.blocks[b].split, 1, 16) = fx.out.blocks[b].p

\* a block whose pulses are spread over several locations, in a frame with
\* a block of 16 pulses and a block without pulses
C30_Witness ==
    /\ ExcitationParsed /\ ~fx.out.panic
    /\ \E b \in 1..Len(fx.out.blocks) :
          /\ fx.out.blocks[b].p = 16
          /\ Cardinality({i \in 1..16 : fx.out.blocks[b].split[i] > 0}) >= 4
    /\ \E b \in 1..Len(fx.out.blocks) :
          \E i \in 1..16 : fx.out.blocks[b].split[i] >= 2

(***************************************************************************)
(* C24: for every stage-1 index and stage-2 vector, each recomposed NLSF   *)
(* is stored, before stabilisation, as                                     *)
(* clamp((codebook[i] << 7) + ((res[i] << 14) / weight[i]), 0, 32767): the  *)
(* value stored in the 16-bit NLSF is never negative and never wraps.      *)
(***************************************************************************)
C24_NlsfClamped ==
    (fx.fn = "parse_nlsfs" /\ fx.done) =>
        \A i \in 1..fx.arg.order :
            /\ fx.out.nlsfs[i] = Min(Max(fx.out.raw[i], 0), 32767)
            /\ fx.out.nlsfs[i] >= 0

(***************************************************************************)
(* Packet::from_slice.                                                     *)
(***************************************************************************)
\* from_slice has returned Ok
Accepted == fx.fn = "from_slice" /\ fx.done /\ fx.out.st = "Ok"

\* C27: for every packet Packet::from_slice accepts, the number of frame
\* slices is the count the TOC code signals (code 0: 1; codes 1 and 2: 2;
\* code 3: the M of the frame-count byte), the slices are disjoint and in
\* payload order, and for code 1 the two slices have equal length.
C27_FrameSlices ==
    Accepted =>
        LET frames == fx.out.p.frames
            code == fx.arg[1] % 4
        IN  /\ Len(frames) = CASE code = 0 -> 1
                               [] code \in {1, 2} -> 2
                               [] code = 3 -> fx.arg[2] % 64
            /\ \A k \in 1..Len(frames) :
                  /\ frames[k].off >= 1
                  /\ frames[k].off + frames[k].len <= Len(fx.arg)
                  /\ k > 1 => frames[k - 1].off + frames[k - 1].len <= frames[k].off
            /\ code = 1 => frames[1].len = frames[Len(frames)].len

\* C28: Packet::from_slice on every byte sequence of length >= 1 returns
\* Ok or Err(InvalidData); it never panics.
C28_FromSliceNeverPanics ==
    (fx.fn = "from_slice" /\ fx.done /\ Len(fx.arg) >= 1) => fx.out.st \in {"Ok", "Err"}

\* send_packet has made its calls for an accepted packet
Handed == fx.fn = "send_packet"

\* C29: for every packet Packet::from_slice accepts, if the mode is not CELT
\* then frame_duration is one of 480, 960, 1920, 2880 and Silk::setup does
\* not reach unreachable!(); if the mode is not SILK then the band range
\* passed to Celt::decode is non-empty with end <= 21 and
\* lm = ilog(frame_duration / 120) - 1 is in {0, 1, 2, 3}.
C29_HandedInRange ==
    Handed =>
        /\ fx.out.p.mode # "CELT" =>
              /\ fx.out.p.frame_duration \in {480, 960, 1920, 2880}
              /\ fx.silk_setup = "frames"
        /\ fx.out.p.mode # "SILK" =>
              /\ fx.celt_decode.start < fx.celt_decode.end
              /\ fx.celt_decode.end <= MAX_BANDS
              /\ fx.celt_decode.lm \in 0..3

\* a HYBRID packet of two frames was handed to both sub-decoders
C29_Witness ==
    /\ Handed /\ fx.out.p.mode = "HYBRID" /\ Len(fx.out.p.frames) = 2
    /\ fx.silk_setup = "frames" /\ fx.celt_decode.start = 17 /\ fx.celt_decode.lm = 3

(***************************************************************************)
(* send_packet on a CELT packet and the state of Silk.                     *)
(***************************************************************************)
\* send_packet has returned from a CELT packet
CeltProcessed == smp.pc = "idle" /\ smp.step = "celt"

\* C26: after send_packet has processed a CELT-only packet, the SILK mid and
\* side frame states are in their reset (flushed) state and the stereo
\* previous weights prev0 and prev1 are zero.
C26_CeltPacketFlushesSilk ==
    CeltProcessed =>
        /\ smp.mid_frame = SilkFrame_new
        /\ smp.side_frame = SilkFrame_new
        /\ smp.info.prev0 = 0 /\ smp.info.prev1 = 0

====
